---- MODULE Spec2Model ----
(***************************************************************************)
(* Model of the speaker-embedding service's audio preprocessing            *)
(* (src/backend/services/embedding-service.py).                            *)
(*                                                                         *)
(* Waveforms are modelled by their sample counts and, where the voice      *)
(* activity detector looks at the samples, by a two-level content: the     *)
(* waveform is a sequence of hop-sized blocks, each silent (every sample   *)
(* 0) or loud (every sample of magnitude 1), followed by a tail shorter    *)
(* than one hop.  On this family the frame energies, their normalisation,  *)
(* the length-3 smoothing and the threshold test are computed exactly.     *)
(***************************************************************************)
EXTENDS Integers, Sequences, FiniteSets, TLC

VARIABLES
    \* ---- AudioPreprocessor._apply_vad (one call) ----
    self_config,        \* self.config of the preprocessor the call runs on
    sample_rate,        \* the sample_rate argument
    audio,              \* the input waveform: [blocks, tail]
    vpc,                \* position of the call
    speech_frames,      \* speech_frames (sequence of BOOLEAN, frame 0 first)
    speech_segments,    \* speech_segments (list of <<start, end>>)
    merged_segments,    \* merged_segments
    speech_audio,       \* speech_audio: the extracted sample ranges <<start, stop>>
    combined,           \* len(combined), -1 before it is assigned
    vad_ret,            \* the returned (waveform, stats)
    \* ---- AudioPreprocessor._crossfade_segments (one call) ----
    xpc,                \* position of the call
    segments,           \* the segments argument (sample count of each)
    result,             \* len(result), the accumulated array
    xi,                 \* number of segments consumed by the loop
    faded,              \* for each join taken so far: TRUE iff it was crossfaded
    xfade_ret,          \* len of the returned array, -1 before the return
    \* ---- AudioPreprocessor._apply_bandpass_filter (concurrent calls) ----
    filter_cache,       \* self._filter_cache: cache_key -> (b, a)
    bp,                 \* per calling thread: position and locals of its call
    \* ---- the service: extract_embedding runs and POST /preprocessing-config ----
    preprocessors,      \* the AudioPreprocessor objects created so far
    audio_preprocessor, \* the module global: index of the active preprocessor
    run,                \* per pipeline run: position and locals of process
    post,               \* per POST /preprocessing-config request: position and locals
    \* ---- AudioPreprocessor._normalize_amplitude (successive calls) ----
    target_amplitude,   \* 10 ** (target_db / 20) as a float
    normalized,         \* the waveform given, then what each call returned for the one before
    \* ---- compute_similarity and POST /compute-centroid (one call each) ----
    embedding1,         \* the embedding1 argument
    embedding2,         \* the embedding2 argument
    similarity,         \* what compute_similarity did: position, return value or raise
    embeddings,         \* the "embeddings" field of the request body
    centroid,           \* what the endpoint did: position, response
    \* ---- code-executor-service.py: OutputCapture (successive writes) ----
    capture,            \* the OutputCapture object
    written,            \* all the text written to each stream so far
    \* ---- code-executor-service.py: RestrictedExecutor.execute (concurrent calls) ----
    sys_stdout,         \* sys.stdout: 0 the stream of the process, e the StdoutCapture of call e
    sys_stderr,         \* sys.stderr, likewise
    builtins_obj,       \* the safe_builtins dict: 0 as built, e once call e has changed it
    modules_obj,        \* the pre-imported module objects, likewise
    safe_globals,       \* the keys of self.safe_globals
    execution,          \* per call of execute: position and locals
    \* ---- embedding-service.py: extract_embedding and convert_to_wav (one call) ----
    files,              \* the paths that exist
    extraction          \* position and locals of the call

vadVars == <<sample_rate, audio, vpc, speech_frames, speech_segments,
             merged_segments, speech_audio, combined, vad_ret>>
xfadeVars == <<xpc, segments, result, xi, faded, xfade_ret>>
bpVars == <<filter_cache, bp>>
svcVars == <<preprocessors, audio_preprocessor, run, post>>
normVars == <<target_amplitude, normalized>>
vecVars == <<embedding1, embedding2, similarity, embeddings, centroid>>
capVars == <<capture, written>>
execVars == <<sys_stdout, sys_stderr, builtins_obj, modules_obj, safe_globals, execution>>
fileVars == <<files, extraction>>
extVars == <<capVars, execVars, fileVars>>
fnVars == <<normVars, vecVars, extVars>>
pipelineVars == <<self_config, vadVars, xfadeVars, bpVars, svcVars, normVars, vecVars>>
vars == <<self_config, vadVars, xfadeVars, bpVars, svcVars, fnVars>>

(***************************************************************************)
(* Bounds of the model.                                                    *)
(***************************************************************************)
MaxBlocks == 6          \* hop-sized blocks of an input waveform of _apply_vad
MaxSegments == 3        \* segments handed to _crossfade_segments on its own
MaxCallers == 2         \* threads calling _apply_bandpass_filter on one preprocessor
MaxCalls == 2           \* calls of _apply_bandpass_filter each thread makes
MaxRuns == 1            \* pipeline runs (extract_embedding requests)
MaxPosts == 1           \* POST /preprocessing-config requests
MantissaBits == 4       \* significant bits of a float (24 in float32)
MaxNormalizations == 2  \* successive calls of _normalize_amplitude
MaxDim == 2             \* length of an embedding vector
MaxOutputSize == 2      \* max_size of an OutputCapture, in characters
MaxWritten == 4         \* characters written to an OutputCapture in all
MaxExecutions == 2      \* calls of RestrictedExecutor.execute
MaxExtractions == 2     \* calls of extract_embedding

(***************************************************************************)
(* Program constants.                                                      *)
(***************************************************************************)
CrossfadeSamples == 160
CanonicalRate == 16000

Max(a, b) == IF a >= b THEN a ELSE b
Min(a, b) == IF a <= b THEN a ELSE b

\* Python int(a / b) for integers a and b > 0: the quotient truncated toward zero.
IntDiv(a, b) == IF a >= 0 THEN a \div b ELSE -((-a) \div b)

RECURSIVE GCD(_, _)
GCD(a, b) == IF b = 0 THEN a ELSE GCD(b, a % b)

RECURSIVE SumSeq(_)
SumSeq(s) == IF s = <<>> THEN 0 ELSE Head(s) + SumSeq(Tail(s))

(***************************************************************************)
(* AudioPreprocessingConfig.  Floats are kept exact: Hz and dB as          *)
(* integers, vad_energy_threshold in thousandths, pre_emphasis_coef in     *)
(* hundredths.                                                             *)
(***************************************************************************)
DefaultConfig ==
    [ bandpass_low_hz      |-> 80,
      bandpass_high_hz     |-> 7500,
      filter_order         |-> 5,
      target_db            |-> -3,
      normalize_audio      |-> TRUE,
      vad_enabled          |-> TRUE,
      vad_energy_threshold |-> 10,
      vad_frame_ms         |-> 30,
      vad_min_speech_ms    |-> 250,
      vad_padding_ms       |-> 100,
      pre_emphasis_enabled |-> TRUE,
      pre_emphasis_coef    |-> 97 ]

ConfigFields == DOMAIN DefaultConfig

\* Values of (vad_frame_ms, vad_min_speech_ms, vad_padding_ms) POST
\* /preprocessing-config can install; the endpoint validates none of them.
VadParams ==
    { <<30, 250, 100>>,     \* the defaults: 16 frames minimum, 6 frames padding
      <<30, 30, 0>>,        \* 2 frames minimum, no padding
      <<30, 30, 15>>,       \* 2 frames minimum, 1 frame padding
      <<30, 15, -100>>,     \* 1 frame minimum, negative padding
      <<5, 5, 0>>,          \* 80-sample frames, 2 frames minimum
      <<5, 3, 3>> }         \* 80-sample frames, 1 frame minimum, 1 frame padding

VadThresholds == {0, 10, 500}

VadConfigs ==
    { [DefaultConfig EXCEPT !.vad_frame_ms = p[1], !.vad_min_speech_ms = p[2],
                            !.vad_padding_ms = p[3], !.vad_energy_threshold = t]
        : p \in VadParams, t \in VadThresholds }

(***************************************************************************)
(* _apply_vad: frame parameters.                                           *)
(***************************************************************************)
FrameSize(cfg, sr) == IntDiv(sr * cfg.vad_frame_ms, 1000)
HopSize(cfg, sr) == FrameSize(cfg, sr) \div 2
MinSpeechFrames(cfg) == IntDiv(2 * cfg.vad_min_speech_ms, cfg.vad_frame_ms)
PaddingFrames(cfg) == IntDiv(2 * cfg.vad_padding_ms, cfg.vad_frame_ms)

\* len(audio_np)
AudioLen(a, cfg, sr) == Len(a.blocks) * HopSize(cfg, sr) + a.tail

NumFrames(a, cfg, sr) ==
    Max(1, (AudioLen(a, cfg, sr) - FrameSize(cfg, sr)) \div HopSize(cfg, sr) + 1)

\* Number of loud samples in audio_np[start:stop].
LoudSamples(a, hop, start, stop) ==
    SumSeq([k \in 1..Len(a.blocks) |->
              a.blocks[k] * Max(0, Min(stop, k * hop) - Max(start, (k - 1) * hop))])

\* 2 * mean(frame ** 2) of frame i (0, 1 or 2 on the two-level family); the
\* energy of a frame that does not fit in the waveform stays 0.
EnergyLevel(a, cfg, sr, i) ==
    LET fs == FrameSize(cfg, sr)
        start == i * HopSize(cfg, sr)
        stop == start + fs
    IN  IF stop <= AudioLen(a, cfg, sr)
        THEN (2 * LoudSamples(a, HopSize(cfg, sr), start, stop)) \div fs
        ELSE 0

Energies(a, cfg, sr) == [j \in 1..NumFrames(a, cfg, sr) |-> EnergyLevel(a, cfg, sr, j - 1)]

RECURSIVE MaxSeq(_)
MaxSeq(s) == IF Len(s) = 1 THEN s[1] ELSE Max(Head(s), MaxSeq(Tail(s)))

\* normalized_energies[j] = sqrt(level[j] / max level) is 0, 1/sqrt(2) or 1:
\* it is kept as <<w, h>> standing for w + h / sqrt(2).  A zero maximum is
\* replaced by 1.0, which leaves every normalized energy 0.
NormalizedEnergies(e) ==
    LET m == MaxSeq(e)
    IN  [j \in 1..Len(e) |->
            IF e[j] = 0 THEN <<0, 0>>
            ELSE IF e[j] = m THEN <<1, 0>>
            ELSE <<0, 1>>]

\* uniform_filter1d(x, size=3) with the default mode 'reflect': three times the
\* smoothed value, the window running over x[j-1], x[j], x[j+1] with x[0]
\* repeated before the first entry and x[n-1] after the last.
SmoothedEnergies(x) ==
    LET n == Len(x)
        at(j) == x[Max(1, Min(n, j))]
    IN  [j \in 1..n |-> <<at(j - 1)[1] + at(j)[1] + at(j + 1)[1],
                          at(j - 1)[2] + at(j)[2] + at(j + 1)[2]>>]

\* ExceedsThreshold with >= in place of >.
MeetsThreshold(s, thr) ==
    LET r == 3 * thr - 1000 * s[1]
    IN  IF r < 0 THEN TRUE
        ELSE (1000 * s[2]) * (1000 * s[2]) >= 2 * r * r

\* (w + h / sqrt(2)) / 3 > thr / 1000, decided in integers.
ExceedsThreshold(s, thr) ==
    LET r == 3 * thr - 1000 * s[1]
    IN  IF r < 0 THEN TRUE
        ELSE (1000 * s[2]) * (1000 * s[2]) > 2 * r * r

SpeechFrames(a, cfg, sr) ==
    LET sm == SmoothedEnergies(NormalizedEnergies(Energies(a, cfg, sr)))
    IN  [j \in 1..Len(sm) |-> ExceedsThreshold(sm[j], cfg.vad_energy_threshold)]

(***************************************************************************)
(* _apply_vad: the scan for speech runs (minimum duration filter).         *)
(***************************************************************************)
PaddedStart(segment_start, padding_frames) == Max(0, segment_start - padding_frames)

PaddedEnd(i, padding_frames, num_frames) == Min(num_frames, i + padding_frames)

KeepRun(segment_length, min_speech_frames) == segment_length >= min_speech_frames

\* The for loop over enumerate(speech_frames); j is the 1-based position, i = j - 1.
RECURSIVE ScanLoop(_, _, _, _, _, _, _)
ScanLoop(sf, j, in_speech, segment_start, segs, minf, padf) ==
    IF j > Len(sf)
    THEN [in_speech |-> in_speech, segment_start |-> segment_start, segs |-> segs]
    ELSE LET i == j - 1 IN
         IF sf[j] /\ ~in_speech
         THEN ScanLoop(sf, j + 1, TRUE, i, segs, minf, padf)
         ELSE IF ~sf[j] /\ in_speech
         THEN ScanLoop(sf, j + 1, FALSE, segment_start,
                       IF KeepRun(i - segment_start, minf)
                       THEN Append(segs, <<PaddedStart(segment_start, padf),
                                           PaddedEnd(i, padf, Len(sf))>>)
                       ELSE segs,
                       minf, padf)
         ELSE ScanLoop(sf, j + 1, in_speech, segment_start, segs, minf, padf)

\* The loop followed by "Handle final segment".
SpeechSegments(sf, minf, padf) ==
    LET s == ScanLoop(sf, 1, FALSE, 0, <<>>, minf, padf)
    IN  IF s.in_speech /\ KeepRun(Len(sf) - s.segment_start, minf)
        THEN Append(s.segs, <<PaddedStart(s.segment_start, padf), Len(sf)>>)
        ELSE s.segs

(***************************************************************************)
(* _apply_vad: merging.                                                    *)
(***************************************************************************)
\* Python's order on tuples of two integers.
TupleLess(a, b) == a[1] < b[1] \/ (a[1] = b[1] /\ a[2] < b[2])

RECURSIVE InsertSorted(_, _)
InsertSorted(x, s) ==
    IF s = <<>> THEN <<x>>
    ELSE IF TupleLess(x, Head(s)) THEN <<x>> \o s
    ELSE <<Head(s)>> \o InsertSorted(x, Tail(s))

\* sorted(speech_segments)
RECURSIVE Sorted(_)
Sorted(s) == IF s = <<>> THEN <<>> ELSE InsertSorted(Head(s), Sorted(Tail(s)))

\* Overlaps leaving adjacent segments apart.
OverlapsStrictly(start, last_end) == start < last_end

Overlaps(start, last_end) == start <= last_end

RECURSIVE MergeLoop(_, _)
MergeLoop(rest, merged) ==
    IF rest = <<>> THEN merged
    ELSE LET start == Head(rest)[1]
             end == Head(rest)[2]
             n == Len(merged)
         IN  IF merged # <<>> /\ Overlaps(start, merged[n][2])
             THEN MergeLoop(Tail(rest),
                            [merged EXCEPT ![n] = <<merged[n][1], Max(merged[n][2], end)>>])
             ELSE MergeLoop(Tail(rest), Append(merged, <<start, end>>))

MergedSegments(segs) == MergeLoop(Sorted(segs), <<>>)

(***************************************************************************)
(* _apply_vad: extraction of the sample ranges.                            *)
(***************************************************************************)
\* A slice bound as numpy resolves it on an array of n samples: a negative
\* bound counts from the end, and the bound is clipped to [0, n].
SliceIndex(i, n) == IF i < 0 THEN Max(0, i + n) ELSE Min(i, n)

EndSample(end_frame, hop, fs, n) == Min(end_frame * hop + fs, n)

\* audio_np[start_sample:end_sample] as the range <<start, stop>> it views.
ExtractRange(seg, hop, fs, n) ==
    LET start == SliceIndex(seg[1] * hop, n)
        stop == SliceIndex(EndSample(seg[2], hop, fs, n), n)
    IN  <<start, Max(start, stop)>>

SpeechAudio(merged, hop, fs, n) ==
    [k \in 1..Len(merged) |-> ExtractRange(merged[k], hop, fs, n)]

RangeLen(r) == r[2] - r[1]

\* round(c / n, 3) in thousandths (ties to even).
RoundRatio(c, n) ==
    LET q == (1000 * c) \div n
        r == (1000 * c) % n
    IN  IF 2 * r > n THEN q + 1
        ELSE IF 2 * r < n THEN q
        ELSE IF q % 2 = 0 THEN q ELSE q + 1

(***************************************************************************)
(* _crossfade_segments.                                                    *)
(***************************************************************************)
\* CanCrossfade without the test of the accumulated result.
CanCrossfadeSegmentOnly(result_len, segment_len, crossfade_samples) ==
    segment_len >= crossfade_samples

CanCrossfade(result_len, segment_len, crossfade_samples) ==
    result_len >= crossfade_samples /\ segment_len >= crossfade_samples

\* FoldLen appending the whole segment after a crossfade.
FoldLenKeepOverlap(result_len, segment_len, crossfade_samples) ==
    result_len + segment_len

\* len(result) after one pass of the loop body.
FoldLen(result_len, segment_len, crossfade_samples) ==
    IF CanCrossfade(result_len, segment_len, crossfade_samples)
    THEN result_len + (segment_len - crossfade_samples)
    ELSE result_len + segment_len

XfadeIdle ==
    /\ xpc = "idle"
    /\ segments = <<>>
    /\ result = -1
    /\ xi = 0
    /\ faded = <<>>
    /\ xfade_ret = -1

\* Lines 302-307: the early returns and result = segments[0].copy().
CrossfadeEnter ==
    /\ xpc = "call"
    /\ IF Len(segments) = 0
       THEN /\ xfade_ret' = 0
            /\ xpc' = "returned"
            /\ UNCHANGED <<result, xi>>
       ELSE IF Len(segments) = 1
       THEN /\ xfade_ret' = segments[1]
            /\ xpc' = "returned"
            /\ UNCHANGED <<result, xi>>
       ELSE /\ result' = segments[1]
            /\ xi' = 1
            /\ xpc' = "loop"
            /\ UNCHANGED xfade_ret
    /\ UNCHANGED <<segments, faded>>

\* Lines 309-322: one iteration of "for segment in segments[1:]".
CrossfadeFold ==
    /\ xpc = "loop"
    /\ xi < Len(segments)
    /\ result' = FoldLen(result, segments[xi + 1], CrossfadeSamples)
    /\ faded' = Append(faded, CanCrossfade(result, segments[xi + 1], CrossfadeSamples))
    /\ xi' = xi + 1
    /\ UNCHANGED <<xpc, segments, xfade_ret>>

\* Line 324: return result.
CrossfadeReturn ==
    /\ xpc = "loop"
    /\ xi = Len(segments)
    /\ xfade_ret' = result
    /\ xpc' = "returned"
    /\ UNCHANGED <<segments, result, xi, faded>>

CrossfadeStep == CrossfadeEnter \/ CrossfadeFold \/ CrossfadeReturn

(***************************************************************************)
(* _apply_bandpass_filter.  A normalized cutoff is kept exact as an        *)
(* integer number of units of 1 / (1000 * sample_rate): hz / nyquist is    *)
(* 2000 * hz units, 0.001 is sample_rate units, 0.99 is 990 * sample_rate. *)
(***************************************************************************)
Callers == 1..MaxCallers

BandpassRates == {8000, 16000}

BandpassLowHz == {0, 80, 300, 7500, 7960}

BandpassHighHz == {80, 3400, 7500, 9000}

BandpassConfigs ==
    { [DefaultConfig EXCEPT !.bandpass_low_hz = l, !.bandpass_high_hz = h]
        : l \in BandpassLowHz, h \in BandpassHighHz }

\* hz / nyquist with nyquist = sample_rate / 2
Normalized(hz, sr) == 2000 * hz

\* low = max(0.001, min(low, 0.99))
ClampLow(low, sr) == Max(sr, Min(low, 990 * sr))

\* ClampHigh without the lower limit low + 0.01.
ClampHighNoFloor(low, high, sr) == Min(high, 990 * sr)

\* high = max(low + 0.01, min(high, 0.99))
ClampHigh(low, high, sr) == Max(low + 10 * sr, Min(high, 990 * sr))

\* CacheKey without the sample rate.
CacheKeyNoRate(cfg, sr) == <<CanonicalRate, cfg.bandpass_low_hz, cfg.bandpass_high_hz, cfg.filter_order>>

\* cache_key = (sample_rate, low_hz, high_hz, order)
CacheKey(cfg, sr) == <<sr, cfg.bandpass_low_hz, cfg.bandpass_high_hz, cfg.filter_order>>

\* scipy_signal.butter accepts a digital band only if 0 < low < high < 1.
ButterAccepts(low, high, sr) == 0 < low /\ low < high /\ high < 1000 * sr

\* The coefficients (b, a) are a function of the order and the band.
Butter(order, low, high, sr) == [order |-> order, low |-> low, high |-> high, rate |-> sr]

NoCall == [pc |-> "idle", calls |-> 0, sample_rate |-> 0, low |-> 0, high |-> 0,
           coeffs |-> <<>>, hit |-> FALSE]

BandpassIdle ==
    /\ filter_cache = <<>>
    /\ bp = [c \in Callers |-> NoCall]

\* Line 163: a thread enters _apply_bandpass_filter.
BandpassCall(c, sr) ==
    /\ bp[c].pc \in {"idle", "returned", "raised"}
    /\ bp[c].calls < MaxCalls
    /\ (c > 1 => bp[c - 1].calls > 0)           \* threads are numbered as they arrive
    /\ bp' = [bp EXCEPT ![c] = [NoCall EXCEPT !.pc = "clamp", !.calls = bp[c].calls + 1,
                                              !.sample_rate = sr]]
    /\ UNCHANGED <<self_config, filter_cache, vadVars, xfadeVars, svcVars, fnVars>>

\* Lines 166-172: normalize by nyquist and clamp.
BandpassClamp(c) ==
    /\ bp[c].pc = "clamp"
    /\ LET sr == bp[c].sample_rate
           low == ClampLow(Normalized(self_config.bandpass_low_hz, sr), sr)
           high == ClampHigh(low, Normalized(self_config.bandpass_high_hz, sr), sr)
       IN  bp' = [bp EXCEPT ![c].low = low, ![c].high = high, ![c].pc = "lookup"]
    /\ UNCHANGED <<self_config, filter_cache, vadVars, xfadeVars, svcVars, fnVars>>

\* Lines 175-176 and 183-184: the cache test, and the read on a hit.
BandpassLookup(c) ==
    /\ bp[c].pc = "lookup"
    /\ LET key == CacheKey(self_config, bp[c].sample_rate)
       IN  IF key \in DOMAIN filter_cache
           THEN bp' = [bp EXCEPT ![c].coeffs = filter_cache[key], ![c].hit = TRUE,
                                 ![c].pc = "filter"]
           ELSE bp' = [bp EXCEPT ![c].pc = "design"]
    /\ UNCHANGED <<self_config, filter_cache, vadVars, xfadeVars, svcVars, fnVars>>

\* BandpassDesign with a design that differs from one caller to the next.
BandpassDesignPerCaller(c) ==
    /\ bp[c].pc = "design"
    /\ IF ButterAccepts(bp[c].low, bp[c].high, bp[c].sample_rate)
       THEN bp' = [bp EXCEPT ![c].coeffs = Butter(self_config.filter_order + c, bp[c].low,
                                                  bp[c].high, bp[c].sample_rate),
                             ![c].pc = "insert"]
       ELSE bp' = [bp EXCEPT ![c].pc = "raised"]
    /\ UNCHANGED <<self_config, filter_cache, vadVars, xfadeVars, svcVars, fnVars>>

\* Lines 177-181: scipy_signal.butter designs the filter or raises ValueError.
BandpassDesign(c) ==
    /\ bp[c].pc = "design"
    /\ IF ButterAccepts(bp[c].low, bp[c].high, bp[c].sample_rate)
       THEN bp' = [bp EXCEPT ![c].coeffs = Butter(self_config.filter_order, bp[c].low,
                                                  bp[c].high, bp[c].sample_rate),
                             ![c].pc = "insert"]
       ELSE bp' = [bp EXCEPT ![c].pc = "raised"]
    /\ UNCHANGED <<self_config, filter_cache, vadVars, xfadeVars, svcVars, fnVars>>

\* Line 182: self._filter_cache[cache_key] = (b, a).
BandpassInsert(c) ==
    /\ bp[c].pc = "insert"
    /\ LET key == CacheKey(self_config, bp[c].sample_rate)
       IN  filter_cache' = [k \in DOMAIN filter_cache \cup {key} |->
                               IF k = key THEN bp[c].coeffs ELSE filter_cache[k]]
    /\ bp' = [bp EXCEPT ![c].pc = "filter"]
    /\ UNCHANGED <<self_config, vadVars, xfadeVars, svcVars, fnVars>>

\* Lines 187-189: filtfilt with the coefficients, and the return.
BandpassFilter(c) ==
    /\ bp[c].pc = "filter"
    /\ bp' = [bp EXCEPT ![c].pc = "returned"]
    /\ UNCHANGED <<self_config, filter_cache, vadVars, xfadeVars, svcVars, fnVars>>

(***************************************************************************)
(* _apply_vad as a sequence of steps.                                      *)
(***************************************************************************)
VadIdle ==
    /\ sample_rate = CanonicalRate
    /\ audio = [blocks |-> <<>>, tail |-> 0]
    /\ vpc = "idle"
    /\ speech_frames = <<>>
    /\ speech_segments = <<>>
    /\ merged_segments = <<>>
    /\ speech_audio = <<>>
    /\ combined = -1
    /\ vad_ret = [returned |-> FALSE]

\* The input waveform as a view of its buffer.
InputWaveform == [buf |-> "input", start |-> 0, stop |-> AudioLen(audio, self_config, sample_rate)]

VadInputs(cfg, sr) ==
    { a \in [blocks : UNION {[1..n -> {0, 1}] : n \in 0..MaxBlocks},
             tail : {0, HopSize(cfg, sr) \div 2}] : AudioLen(a, cfg, sr) > 0 }

\* Lines 208-235: frame energies, normalisation, smoothing, threshold.
VadDetect ==
    /\ vpc = "call"
    /\ speech_frames' = SpeechFrames(audio, self_config, sample_rate)
    /\ vpc' = "scan"
    /\ UNCHANGED <<self_config, sample_rate, audio, speech_segments, merged_segments,
                   speech_audio, combined, vad_ret>>
    /\ UNCHANGED <<xfadeVars, bpVars, svcVars, fnVars>>

\* Lines 237-260: the minimum speech duration filter.
VadScan ==
    /\ vpc = "scan"
    /\ speech_segments' = SpeechSegments(speech_frames, MinSpeechFrames(self_config),
                                         PaddingFrames(self_config))
    /\ vpc' = "scanned"
    /\ UNCHANGED <<self_config, sample_rate, audio, speech_frames, merged_segments,
                   speech_audio, combined, vad_ret>>
    /\ UNCHANGED <<xfadeVars, bpVars, svcVars, fnVars>>

\* FailOpenStats without the speech ratio.
FailOpenStatsNoRatio == [speech_segments |-> 0, kept_original |-> TRUE]

\* Lines 265-269: the statistics of the fail-open return.
FailOpenStats == [speech_segments |-> 0, speech_ratio |-> 0, kept_original |-> TRUE]

\* FailOpenReturn reporting the waveform as processed.
FailOpenReturnProcessed(waveform) ==
    [returned |-> TRUE, waveform |-> waveform,
     stats |-> [FailOpenStats EXCEPT !.kept_original = FALSE]]

FailOpenReturn(waveform) == [returned |-> TRUE, waveform |-> waveform, stats |-> FailOpenStats]

\* Lines 262-269: no speech detected, return original.
VadFailOpen ==
    /\ vpc = "scanned"
    /\ speech_segments = <<>>
    /\ vad_ret' = FailOpenReturn(InputWaveform)
    /\ vpc' = "done"
    /\ UNCHANGED <<self_config, sample_rate, audio, speech_frames, speech_segments,
                   merged_segments, speech_audio, combined>>
    /\ UNCHANGED <<xfadeVars, bpVars, svcVars, fnVars>>

\* Lines 271-277: merge overlapping segments.
VadMerge ==
    /\ vpc = "scanned"
    /\ speech_segments # <<>>
    /\ merged_segments' = MergedSegments(speech_segments)
    /\ vpc' = "merged"
    /\ UNCHANGED <<self_config, sample_rate, audio, speech_frames, speech_segments,
                   speech_audio, combined, vad_ret>>
    /\ UNCHANGED <<xfadeVars, bpVars, svcVars, fnVars>>

\* Lines 279-284: extract speech portions.
VadExtract ==
    /\ vpc = "merged"
    /\ speech_audio' = SpeechAudio(merged_segments, HopSize(self_config, sample_rate),
                                   FrameSize(self_config, sample_rate),
                                   AudioLen(audio, self_config, sample_rate))
    /\ vpc' = "extracted"
    /\ UNCHANGED <<self_config, sample_rate, audio, speech_frames, speech_segments,
                   merged_segments, combined, vad_ret>>
    /\ UNCHANGED <<xfadeVars, bpVars, svcVars, fnVars>>

\* Lines 287-288: more than one range, call _crossfade_segments.
VadSpliceCall ==
    /\ vpc = "extracted"
    /\ Len(speech_audio) > 1
    /\ segments' = [k \in 1..Len(speech_audio) |-> RangeLen(speech_audio[k])]
    /\ xpc' = "call"
    /\ vpc' = "splicing"
    /\ UNCHANGED <<result, xi, faded, xfade_ret>>
    /\ UNCHANGED <<self_config, sample_rate, audio, speech_frames, speech_segments,
                   merged_segments, speech_audio, combined, vad_ret>>
    /\ UNCHANGED <<bpVars, svcVars, fnVars>>

\* The call of _crossfade_segments runs.
VadSplicing ==
    /\ vpc = "splicing"
    /\ CrossfadeStep
    /\ UNCHANGED <<self_config, vadVars, bpVars, svcVars, fnVars>>

\* Line 288: combined = the array _crossfade_segments returned.
VadSpliceReturn ==
    /\ vpc = "splicing"
    /\ xpc = "returned"
    /\ combined' = xfade_ret
    /\ vpc' = "combined"
    /\ UNCHANGED <<self_config, sample_rate, audio, speech_frames, speech_segments,
                   merged_segments, speech_audio, vad_ret>>
    /\ UNCHANGED <<xfadeVars, bpVars, svcVars, fnVars>>

\* Lines 289-290: a single range is used as it is.
VadSingle ==
    /\ vpc = "extracted"
    /\ Len(speech_audio) <= 1
    /\ combined' = RangeLen(speech_audio[1])
    /\ vpc' = "combined"
    /\ UNCHANGED <<self_config, sample_rate, audio, speech_frames, speech_segments,
                   merged_segments, speech_audio, vad_ret>>
    /\ UNCHANGED <<xfadeVars, bpVars, svcVars, fnVars>>

\* Lines 292-298: the statistics and the returned tensor.  A single range is a
\* view of the input's samples; a spliced result is a new array.
VadReturn ==
    /\ vpc = "combined"
    /\ vad_ret' =
         [returned |-> TRUE,
          waveform |-> IF Len(speech_audio) > 1
                       THEN [buf |-> "spliced", start |-> 0, stop |-> combined]
                       ELSE [buf |-> "input", start |-> speech_audio[1][1],
                             stop |-> speech_audio[1][2]],
          stats |-> [speech_segments |-> Len(merged_segments),
                     speech_ratio |-> RoundRatio(combined,
                                        AudioLen(audio, self_config, sample_rate)),
                     kept_original |-> FALSE]]
    /\ vpc' = "done"
    /\ UNCHANGED <<self_config, sample_rate, audio, speech_frames, speech_segments,
                   merged_segments, speech_audio, combined>>
    /\ UNCHANGED <<xfadeVars, bpVars, svcVars, fnVars>>

(***************************************************************************)
(* The pipeline: AudioPreprocessor.process, called by extract_embedding on *)
(* the preprocessor the module global names at the time of the call, and   *)
(* POST /preprocessing-config, which replaces that preprocessor.           *)
(***************************************************************************)
Runs == 1..MaxRuns

Posts == 1..MaxPosts

\* The waveforms torchaudio.load hands over: <<sample rate, channels, samples>>.
Inputs ==
    { <<8000, 2, 720>>, <<16000, 2, 480>>, <<16000, 1, 480>>,
      <<8000, 1, 20>>, <<16000, 1, 20>> }

\* Waveforms process can be called with that no recording holds: a sample
\* rate of 0 or below, or no sample at all.
InvalidInputs ==
    { <<0, 1, 480>>, <<0 - 8000, 1, 480>>, <<8000, 2, 0>>, <<16000, 1, 0>> }

\* The JSON bodies a POST request carries; the empty one is refused.
Patches ==
    { <<>>,
      ("pre_emphasis_enabled" :> FALSE) @@ ("normalize_audio" :> FALSE),
      ("vad_enabled" :> FALSE) @@ ("bandpass_low_hz" :> 300) @@ ("bandpass_high_hz" :> 3400),
      ("vad_min_speech_ms" :> 30) @@ ("vad_padding_ms" :> 0) }

\* AudioPreprocessor.__init__
NewPreprocessor(config) == [config |-> config, filter_cache |-> <<>>]

\* self.config as a stage of run r reads it, naming the module global instead
\* of self.
ActiveConfig(r) == preprocessors[audio_preprocessor].config

\* self.config as a stage of run r reads it.
RunConfig(r) == preprocessors[run[r].self].config

\* The reads of the fields fs of cfg, in order.
ConfigReads(cfg, fs) == [k \in 1..Len(fs) |-> <<fs[k], cfg[fs[k]]>>]

Tag(name) == <<name>>

\* f"bandpass_{low}_{high}Hz"
BandpassTag(low_hz, high_hz) == <<"bandpass", low_hz, high_hz>>

\* torchaudio.functional.resample: ceil(new_freq * length / orig_freq) samples.
ResampledLen(n, orig_freq, new_freq) == (new_freq * n + orig_freq - 1) \div orig_freq

\* torchaudio.functional.resample raises ValueError unless both frequencies
\* are positive.
ResampleAccepts(orig_freq, new_freq) == orig_freq > 0 /\ new_freq > 0

\* FiltfiltFits for an input of any length.
FiltfiltFitsAlways(n, order) == TRUE

\* filtfilt pads 3 * max(len(a), len(b)) samples, 2 * order + 1 coefficients
\* each for a bandpass, and raises ValueError unless the input is longer.
FiltfiltFits(n, order) == n > 3 * (2 * order + 1)

\* _crossfade_segments as one evaluation.
RECURSIVE CrossfadeLoop(_, _, _)
CrossfadeLoop(result_len, rest, crossfade_samples) ==
    IF rest = <<>> THEN result_len
    ELSE CrossfadeLoop(FoldLen(result_len, Head(rest), crossfade_samples), Tail(rest),
                       crossfade_samples)

CrossfadeSegmentsLen(segs, crossfade_samples) ==
    IF Len(segs) = 0 THEN 0
    ELSE IF Len(segs) = 1 THEN segs[1]
    ELSE CrossfadeLoop(segs[1], Tail(segs), crossfade_samples)

\* Lines 262-298 of _apply_vad as one evaluation, from the collected segments:
\* <<len of the returned waveform, stats>>.
VadOutcome(segs, n, cfg, sr) ==
    LET merged == MergedSegments(segs)
        ranges == SpeechAudio(merged, HopSize(cfg, sr), FrameSize(cfg, sr), n)
        lens == [k \in 1..Len(ranges) |-> RangeLen(ranges[k])]
        comb == IF Len(lens) > 1 THEN CrossfadeSegmentsLen(lens, CrossfadeSamples)
                ELSE lens[1]
    IN  IF segs = <<>>
        THEN <<n, FailOpenStats>>
        ELSE <<comb, [speech_segments |-> Len(merged),
                      speech_ratio |-> RoundRatio(comb, n),
                      kept_original |-> FALSE]>>

\* The two-level contents of a waveform of n samples, for the hop of cfg.
Contents(n, cfg, sr) ==
    { [blocks |-> b, tail |-> n % HopSize(cfg, sr)] :
        b \in [1..(n \div HopSize(cfg, sr)) -> {0, 1}] }

\* A tensor as an object and the buffer holding its samples; the waveform
\* extract_embedding loads is object 0 on buffer 0.
LoadedWaveform == [obj |-> 0, buf |-> 0]

\* The fields of the configuration _apply_vad reads.
VadSettings(cfg) ==
    <<cfg.vad_frame_ms, cfg.vad_min_speech_ms, cfg.vad_padding_ms, cfg.vad_energy_threshold>>

\* The values a field takes in the configurations the requests can install.
FieldValues(f) == {DefaultConfig[f]} \cup {d[f] : d \in {q \in Patches : f \in DOMAIN q}}

\* What _apply_vad returns on the waveforms of n samples at 16 kHz, one outcome
\* for each two-level content, for every length and every detector setting
\* the pipeline meets.
VadOutcomes ==
    [k \in {ResampledLen(w[3], w[1], CanonicalRate) :
                w \in {v \in Inputs \cup InvalidInputs : v[1] > 0}}
            \X (FieldValues("vad_frame_ms") \X FieldValues("vad_min_speech_ms")
                \X FieldValues("vad_padding_ms") \X FieldValues("vad_energy_threshold")) |->
        LET cfg == [DefaultConfig EXCEPT !.vad_frame_ms = k[2][1],
                                          !.vad_min_speech_ms = k[2][2],
                                          !.vad_padding_ms = k[2][3],
                                          !.vad_energy_threshold = k[2][4]]
        IN  { VadOutcome(SpeechSegments(SpeechFrames(a, cfg, CanonicalRate),
                                        MinSpeechFrames(cfg), PaddingFrames(cfg)),
                         k[1], cfg, CanonicalRate)
                : a \in Contents(k[1], cfg, CanonicalRate) }]
    @@ <<>>     \* the table is built once

NoRun == [pc |-> "idle", self |-> 0, input |-> <<0, 0, 0>>, sample_rate |-> 0,
          channels |-> 0, samples |-> 0, reads |-> <<>>, metadata |-> <<>>,
          waveform |-> LoadedWaveform, stages |-> <<>>]

\* A tensor a stage of run r allocates: an object and a buffer no earlier
\* stage of the run has seen.
FreshWaveform(r) == [obj |-> Len(run[r].stages) + 1, buf |-> Len(run[r].stages) + 1]

\* A new tensor over the buffer of the stage's input: torch.from_numpy of a
\* numpy view of the input, .float() of a float32 tensor being the tensor itself.
ViewOfInput(r) == [obj |-> Len(run[r].stages) + 1, buf |-> run[r].waveform.buf]

\* What a stage did with its input: the waveform it was given, the one it
\* returned, and the buffers it wrote in place.
StageRecord(r, name, out, wrote) ==
    [stage |-> name, in |-> run[r].waveform, out |-> out, wrote |-> wrote]

NoPost == [pc |-> "idle", data |-> <<>>, current_config |-> <<>>, new_config |-> <<>>]

ServiceIdle ==
    /\ preprocessors = <<NewPreprocessor(DefaultConfig)>>
    /\ audio_preprocessor = 1
    /\ run = [r \in Runs |-> NoRun]
    /\ post = [p \in Posts |-> NoPost]

\* The tags appended so far.
Applied(r) == run[r].metadata.preprocessing_applied

\* metadata["preprocessing_applied"].append(tag)
AppendTag(metadata, tag) ==
    [metadata EXCEPT !.preprocessing_applied = Append(@, tag)]

\* Line 527 and lines 113-117: extract_embedding calls process on the active
\* preprocessor with the loaded waveform; process starts its metadata, the
\* division of line 114 raising ZeroDivisionError at a sample rate of 0.
ProcessCall(r, sr, ch, n) ==
    /\ run[r].pc = "idle"
    /\ (r > 1 => run[r - 1].pc # "idle")        \* requests are numbered as they arrive
    /\ run' = [run EXCEPT ![r] =
                 IF sr = 0
                 THEN [NoRun EXCEPT !.pc = "raised", !.self = audio_preprocessor,
                                    !.input = <<sr, ch, n>>, !.sample_rate = sr,
                                    !.channels = ch, !.samples = n]
                 ELSE [NoRun EXCEPT !.pc = "resample", !.self = audio_preprocessor,
                               !.input = <<sr, ch, n>>, !.sample_rate = sr, !.channels = ch, !.samples = n,
                               !.metadata = [original_duration_s |-> <<n, sr>>,
                                             original_sample_rate |-> sr,
                                             preprocessing_applied |-> <<>>]]]
    /\ UNCHANGED <<preprocessors, audio_preprocessor, post>>
    /\ UNCHANGED <<self_config, vadVars, xfadeVars, bpVars, fnVars>>

\* Lines 119-123: resample to 16kHz if needed.
Resample(r) ==
    /\ run[r].pc = "resample"
    /\ IF run[r].sample_rate # CanonicalRate /\ ~ResampleAccepts(run[r].sample_rate, CanonicalRate)
       THEN run' = [run EXCEPT ![r].pc = "raised"]
       ELSE IF run[r].sample_rate # CanonicalRate
       THEN run' = [run EXCEPT
                      ![r].samples = ResampledLen(@, run[r].sample_rate, CanonicalRate),
                      ![r].sample_rate = CanonicalRate,
                      ![r].metadata = AppendTag(@, Tag("resample_16k")),
                      ![r].waveform = FreshWaveform(r),
                      ![r].stages = Append(@, StageRecord(r, "resample", FreshWaveform(r), {})),
                      ![r].pc = "mono"]
       ELSE run' = [run EXCEPT ![r].pc = "mono"]
    /\ UNCHANGED <<preprocessors, audio_preprocessor, post>>
    /\ UNCHANGED <<self_config, vadVars, xfadeVars, bpVars, fnVars>>

\* Lines 125-128: convert to mono if stereo.
Mono(r) ==
    /\ run[r].pc = "mono"
    /\ IF run[r].channels > 1
       THEN run' = [run EXCEPT ![r].channels = 1,
                               ![r].metadata = AppendTag(@, Tag("mono_conversion")),
                               ![r].waveform = FreshWaveform(r),
                               ![r].stages = Append(@, StageRecord(r, "mono", FreshWaveform(r), {})),
                               ![r].pc = "bandpass"]
       ELSE run' = [run EXCEPT ![r].pc = "bandpass"]
    /\ UNCHANGED <<preprocessors, audio_preprocessor, post>>
    /\ UNCHANGED <<self_config, vadVars, xfadeVars, bpVars, fnVars>>

\* Lines 130-132: _apply_bandpass_filter on the run's preprocessor, then the
\* tag.  The stage raises when butter refuses the band or filtfilt the length.
Bandpass(r) ==
    /\ run[r].pc = "bandpass"
    /\ LET cfg == RunConfig(r)
           sr == run[r].sample_rate
           low == ClampLow(Normalized(cfg.bandpass_low_hz, sr), sr)
           high == ClampHigh(low, Normalized(cfg.bandpass_high_hz, sr), sr)
           key == CacheKey(cfg, sr)
           cache == preprocessors[run[r].self].filter_cache
           hit == key \in DOMAIN cache
           read == ConfigReads(cfg, <<"bandpass_low_hz", "bandpass_high_hz",
                                      "bandpass_low_hz", "bandpass_high_hz", "filter_order">>)
       IN  IF ~hit /\ ~ButterAccepts(low, high, sr)
           THEN /\ run' = [run EXCEPT ![r].pc = "raised", ![r].reads = @ \o read]
                /\ UNCHANGED preprocessors
           ELSE /\ preprocessors' =
                     [preprocessors EXCEPT ![run[r].self].filter_cache =
                         IF hit THEN @
                         ELSE [k \in DOMAIN @ \cup {key} |->
                                 IF k = key THEN Butter(cfg.filter_order, low, high, sr)
                                 ELSE @[k]]]
                /\ IF FiltfiltFits(run[r].samples, cfg.filter_order)
                   THEN run' = [run EXCEPT
                          ![r].pc = "pre_emphasis",
                          ![r].reads = @ \o read \o ConfigReads(cfg,
                                          <<"bandpass_low_hz", "bandpass_high_hz">>),
                          ![r].metadata = AppendTag(@,
                              BandpassTag(cfg.bandpass_low_hz, cfg.bandpass_high_hz)),
                          ![r].waveform = FreshWaveform(r),
                          ![r].stages = Append(@, StageRecord(r, "bandpass", FreshWaveform(r), {}))]
                   ELSE run' = [run EXCEPT ![r].pc = "raised", ![r].reads = @ \o read]
    /\ UNCHANGED <<audio_preprocessor, post>>
    /\ UNCHANGED <<self_config, vadVars, xfadeVars, bpVars, fnVars>>

\* PreEmphasisEnabled ignoring the configuration.
PreEmphasisEnabledAlways(cfg) == TRUE

PreEmphasisEnabled(cfg) == cfg.pre_emphasis_enabled

\* Lines 134-137: pre-emphasis if enabled.
PreEmphasis(r) ==
    /\ run[r].pc = "pre_emphasis"
    /\ LET cfg == RunConfig(r)
       IN  IF PreEmphasisEnabled(cfg)
           THEN run' = [run EXCEPT
                  ![r].reads = @ \o ConfigReads(cfg, <<"pre_emphasis_enabled",
                                                      "pre_emphasis_coef">>),
                  ![r].metadata = AppendTag(@, Tag("pre_emphasis")),
                  ![r].waveform = FreshWaveform(r),
                  ![r].stages = Append(@, StageRecord(r, "pre_emphasis", FreshWaveform(r), {})),
                  ![r].pc = "vad"]
           ELSE run' = [run EXCEPT
                  ![r].reads = @ \o ConfigReads(cfg, <<"pre_emphasis_enabled">>),
                  ![r].pc = "vad"]
    /\ UNCHANGED <<preprocessors, audio_preprocessor, post>>
    /\ UNCHANGED <<self_config, vadVars, xfadeVars, bpVars, fnVars>>

\* The waveform _apply_vad returns: the input tensor itself when it fails open
\* (line 265), a tensor over a slice of the input's buffer when one merged
\* segment is kept (lines 284, 290, 298), a tensor over the array
\* _crossfade_segments built otherwise (lines 288, 298).
VadWaveform(r, stats) ==
    IF stats.kept_original THEN run[r].waveform
    ELSE IF stats.speech_segments = 1 THEN ViewOfInput(r)
    ELSE FreshWaveform(r)

\* The buffers _apply_vad writes in place: the copies _crossfade_segments
\* fades (lines 307, 315-319), gathered in the array it returns.
VadWrote(r, stats) ==
    IF ~stats.kept_original /\ stats.speech_segments > 1 THEN {FreshWaveform(r).buf}
    ELSE {}

\* Lines 139-143: voice activity detection if enabled.  The filtered samples
\* are any two-level content of the run's length.
Vad(r) ==
    /\ run[r].pc = "vad"
    /\ LET cfg == RunConfig(r)
       IN  IF cfg.vad_enabled
           THEN \E out \in VadOutcomes[<<run[r].samples, VadSettings(cfg)>>] :
                      run' = [run EXCEPT
                        ![r].samples = out[1],
                        ![r].waveform = VadWaveform(r, out[2]),
                        ![r].stages = Append(@, StageRecord(r, "vad", VadWaveform(r, out[2]),
                                                            VadWrote(r, out[2]))),
                        ![r].reads = @ \o ConfigReads(cfg,
                            <<"vad_enabled", "vad_frame_ms", "vad_min_speech_ms",
                              "vad_frame_ms", "vad_padding_ms", "vad_frame_ms",
                              "vad_energy_threshold">>),
                        ![r].metadata =
                            [k \in DOMAIN AppendTag(@, Tag("vad")) \cup {"vad_stats"} |->
                               IF k = "vad_stats" THEN out[2]
                               ELSE AppendTag(@, Tag("vad"))[k]],
                        ![r].pc = "normalize"]
           ELSE run' = [run EXCEPT
                  ![r].reads = @ \o ConfigReads(cfg, <<"vad_enabled">>),
                  ![r].pc = "normalize"]
    /\ UNCHANGED <<preprocessors, audio_preprocessor, post>>
    /\ UNCHANGED <<self_config, vadVars, xfadeVars, bpVars, fnVars>>

\* The waveform _normalize_amplitude returns: a new tensor when the peak is
\* not 0 (lines 340-341), the input tensor itself otherwise (line 343).
NormalizedWaveform(r, peak_positive) ==
    IF peak_positive THEN FreshWaveform(r) ELSE run[r].waveform

\* Lines 145-148: amplitude normalization if enabled; target_db is read only
\* when the peak is not 0.
Normalize(r) ==
    /\ run[r].pc = "normalize"
    /\ LET cfg == RunConfig(r)
       IN  IF cfg.normalize_audio
           THEN \E peak_positive \in BOOLEAN :
                \E out \in {NormalizedWaveform(r, peak_positive)} :
                  run' = [run EXCEPT
                    ![r].waveform = out,
                    ![r].stages = Append(@, StageRecord(r, "normalize", out, {})),
                    ![r].reads = @ \o ConfigReads(cfg,
                        IF peak_positive THEN <<"normalize_audio", "target_db">>
                        ELSE <<"normalize_audio">>),
                    ![r].metadata = AppendTag(@, Tag("amplitude_normalization")),
                    ![r].pc = "finish"]
           ELSE run' = [run EXCEPT
                  ![r].reads = @ \o ConfigReads(cfg, <<"normalize_audio">>),
                  ![r].pc = "finish"]
    /\ UNCHANGED <<preprocessors, audio_preprocessor, post>>
    /\ UNCHANGED <<self_config, vadVars, xfadeVars, bpVars, fnVars>>

\* round((1 - final / original) * 100, 1) in tenths of a percent, the
\* durations given as <<samples, rate>>.
ReductionPct(original, final) ==
    LET num == final[2] * original[1] - final[1] * original[2]
        den == final[2] * original[1]
        g == GCD(IF num < 0 THEN -num ELSE num, den)
    IN  RoundRatio(num \div g, den \div g)

\* Lines 150-155: the final duration, the reduction, and the return; the
\* division of line 152 raises ZeroDivisionError at an original duration of 0.
Finish(r) ==
    /\ run[r].pc = "finish"
    /\ LET final == <<run[r].samples, run[r].sample_rate>>
           m == run[r].metadata
       IN  IF m.original_duration_s[1] = 0
           THEN run' = [run EXCEPT ![r].pc = "raised"]
           ELSE run' = [run EXCEPT
             ![r].metadata =
                 [k \in DOMAIN m \cup {"final_duration_s", "duration_reduction_pct"} |->
                    IF k = "final_duration_s" THEN final
                    ELSE IF k = "duration_reduction_pct"
                    THEN ReductionPct(m.original_duration_s, final)
                    ELSE m[k]],
             ![r].pc = "returned"]
    /\ UNCHANGED <<preprocessors, audio_preprocessor, post>>
    /\ UNCHANGED <<self_config, vadVars, xfadeVars, bpVars, fnVars>>

\* MergedConfig without the data.get of vad_padding_ms.
MergedConfigButPadding(current_config, data) ==
    [f \in ConfigFields |->
        IF f \in DOMAIN data /\ f # "vad_padding_ms" THEN data[f] ELSE current_config[f]]

\* The configuration built from the request body over the current one.
MergedConfig(current_config, data) ==
    [f \in ConfigFields |-> IF f \in DOMAIN data THEN data[f] ELSE current_config[f]]

\* Lines 715-717: a POST with no configuration is answered 400.
PostRefused(p, data) ==
    /\ post[p].pc = "idle"
    /\ (p > 1 => post[p - 1].pc # "idle")       \* requests are numbered as they arrive
    /\ data = <<>>
    /\ post' = [post EXCEPT ![p].pc = "refused"]
    /\ UNCHANGED <<preprocessors, audio_preprocessor, run>>
    /\ UNCHANGED <<self_config, vadVars, xfadeVars, bpVars, fnVars>>

\* Lines 715-734: the handler reads the active configuration and builds the
\* new one.
PostBuild(p, data) ==
    /\ post[p].pc = "idle"
    /\ (p > 1 => post[p - 1].pc # "idle")       \* requests are numbered as they arrive
    /\ data # <<>>
    /\ post' = [post EXCEPT ![p].pc = "built", ![p].data = data,
                            ![p].current_config = preprocessors[audio_preprocessor].config,
                            ![p].new_config =
                                MergedConfig(preprocessors[audio_preprocessor].config, data)]
    /\ UNCHANGED <<preprocessors, audio_preprocessor, run>>
    /\ UNCHANGED <<self_config, vadVars, xfadeVars, bpVars, fnVars>>

\* Lines 736-749: audio_preprocessor = AudioPreprocessor(new_config).
PostSwap(p) ==
    /\ post[p].pc = "built"
    /\ preprocessors' = Append(preprocessors, NewPreprocessor(post[p].new_config))
    /\ audio_preprocessor' = Len(preprocessors) + 1
    /\ post' = [post EXCEPT ![p].pc = "done"]
    /\ UNCHANGED run
    /\ UNCHANGED <<self_config, vadVars, xfadeVars, bpVars, fnVars>>

(***************************************************************************)
(* _normalize_amplitude.  Samples are magnitudes in a binary floating-point *)
(* format of MantissaBits significant bits, rounded to nearest, ties to    *)
(* even, as float32 is with 24: a non-zero value is <<m, e>>, standing for *)
(* m * 2^e with 2^(MantissaBits-1) <= m < 2^MantissaBits.  Signs are left  *)
(* out: the peak is taken of absolute values and scaling keeps the sign.   *)
(***************************************************************************)
Pow2(n) == 2 ^ n

Zero == <<0, 0>>

\* round(num / den) to an integer, ties to even
RoundHalfEven(num, den) ==
    LET q == num \div den
        r == num % den
    IN  IF 2 * r > den \/ (2 * r = den /\ q % 2 = 1) THEN q + 1 ELSE q

\* The float nearest to (num / den) * 2^e, for num, den > 0.
RECURSIVE Fl(_, _, _)
Fl(num, den, e) ==
    IF num < den * Pow2(MantissaBits - 1) THEN Fl(2 * num, den, e - 1)
    ELSE IF num >= den * Pow2(MantissaBits) THEN Fl(num, 2 * den, e + 1)
    ELSE LET m == RoundHalfEven(num, den)
         IN  IF m = Pow2(MantissaBits) THEN <<Pow2(MantissaBits - 1), e + 1>> ELSE <<m, e>>

\* a * b
Mul(a, b) == IF a = Zero \/ b = Zero THEN Zero ELSE Fl(a[1] * b[1], 1, a[2] + b[2])

\* a / b, b not zero
Div(a, b) == IF a = Zero THEN Zero ELSE Fl(a[1], b[1], a[2] - b[2])

\* tensor.reciprocal()
Reciprocal(a) == Fl(1, a[1], -a[2])

FloatLess(a, b) == a # b /\ (a = Zero \/ (b # Zero /\ (a[2] < b[2] \/ (a[2] = b[2] /\ a[1] < b[1]))))

\* torch.max(torch.abs(audio))
Peak(w) == CHOOSE x \in {w[k] : k \in 1..Len(w)} : \A k \in 1..Len(w) : ~FloatLess(x, w[k])

\* target_amplitude / peak: a Python float divided by a tensor, which torch
\* evaluates as peak.reciprocal() * target_amplitude or as one division,
\* depending on its version.
ScaleFactors(target, peak) == {Mul(Reciprocal(peak), target), Div(target, peak)}

\* Scaled leaving the samples as they are.
Unscaled(w, scale) == w

\* audio * scale
Scaled(w, scale) == [k \in 1..Len(w) |-> Mul(w[k], scale)]

Mantissas == Pow2(MantissaBits - 1)..(Pow2(MantissaBits) - 1)

\* The sample magnitudes of the waveforms: zero, and the floats of two binades
\* below 1.
Samples == {Zero} \cup (Mantissas \X {-MantissaBits, -MantissaBits - 1})

\* Waveforms of one sample and of two.
Waveforms == [{1} -> Samples] \cup [{1, 2} -> Samples]

\* target_amplitude for the target_db of a configuration: a float in [0.5, 1).
TargetAmplitudes == Mantissas \X {-MantissaBits}

NormalizeIdle ==
    /\ target_amplitude = Zero
    /\ normalized = <<>>

\* Lines 331-343: one call of _normalize_amplitude on what the call before
\* returned.
NormalizeAmplitude ==
    /\ normalized # <<>>
    /\ Len(normalized) <= MaxNormalizations
    /\ LET waveform == normalized[Len(normalized)]
           peak == Peak(waveform)
       IN  IF FloatLess(Zero, peak)
           THEN \E scale \in ScaleFactors(target_amplitude, peak) :
                   normalized' = Append(normalized, Scaled(waveform, scale))
           ELSE normalized' = Append(normalized, waveform)
    /\ UNCHANGED <<target_amplitude, vecVars>>
    /\ UNCHANGED <<self_config, vadVars, xfadeVars, bpVars, svcVars, extVars>>

(***************************************************************************)
(* compute_similarity and POST /compute-centroid.                          *)
(***************************************************************************)
\* The components of the vectors: 0 and a non-zero number.
Components == {0, 1}

\* The lists of numbers a request carries as one embedding.
Vectors == UNION {[1..n -> Components] : n \in 0..MaxDim}

\* The "embeddings" of a centroid request: no vector, one, or two.
VectorLists == {<<>>} \cup {<<v>> : v \in Vectors} \cup {<<v, w>> : v \in Vectors, w \in Vectors}

\* np.dot(e1, e2) of two arrays of one length
Dot(e1, e2) == SumSeq([k \in 1..Len(e1) |-> e1[k] * e2[k]])

\* np.linalg.norm(e) squared
NormSquared(e) == Dot(e, e)

\* The lists have one length, so that np.array builds a 2-D array of them.
Rectangular(vs) == \A j \in 1..Len(vs), k \in 1..Len(vs) : Len(vs[j]) = Len(vs[k])

\* np.mean(embeddings_array, axis=0): each component as <<sum, count>>.
MeanAxis0(vs) ==
    [k \in 1..Len(vs[1]) |-> <<SumSeq([j \in 1..Len(vs) |-> vs[j][k]]), Len(vs)>>]

VectorsIdle ==
    /\ embedding1 = <<>>
    /\ embedding2 = <<>>
    /\ similarity = [pc |-> "idle"]
    /\ embeddings = <<>>
    /\ centroid = [pc |-> "idle"]

\* Lines 579-580: np.array of each list.
SimilarityArrays ==
    /\ similarity.pc = "call"
    /\ similarity' = [pc |-> "dot"]
    /\ UNCHANGED <<embedding1, embedding2, embeddings, centroid, normVars>>
    /\ UNCHANGED <<self_config, vadVars, xfadeVars, bpVars, svcVars, extVars>>

\* Line 583: np.dot raises ValueError when the lengths differ; lines 593-595
\* log and raise again.
SimilarityDot ==
    /\ similarity.pc = "dot"
    /\ IF Len(embedding1) # Len(embedding2)
       THEN similarity' = [pc |-> "raised", error |-> "ValueError"]
       ELSE similarity' = [pc |-> "norms", dot_product |-> Dot(embedding1, embedding2)]
    /\ UNCHANGED <<embedding1, embedding2, embeddings, centroid, normVars>>
    /\ UNCHANGED <<self_config, vadVars, xfadeVars, bpVars, svcVars, extVars>>

\* SimilarityNorms without the test of line 587.
SimilarityNormsUnguarded ==
    /\ similarity.pc = "norms"
    /\ similarity' = [pc |-> "divide", dot_product |-> similarity.dot_product,
                      norm1 |-> NormSquared(embedding1), norm2 |-> NormSquared(embedding2)]
    /\ UNCHANGED <<embedding1, embedding2, embeddings, centroid, normVars>>
    /\ UNCHANGED <<self_config, vadVars, xfadeVars, bpVars, svcVars, extVars>>

\* Lines 584-588: the norms (kept squared), and 0.0 when one of them is 0.
SimilarityNorms ==
    /\ similarity.pc = "norms"
    /\ IF NormSquared(embedding1) = 0 \/ NormSquared(embedding2) = 0
       THEN similarity' = [pc |-> "returned", value |-> 0, divided |-> FALSE]
       ELSE similarity' = [pc |-> "divide", dot_product |-> similarity.dot_product,
                           norm1 |-> NormSquared(embedding1),
                           norm2 |-> NormSquared(embedding2)]
    /\ UNCHANGED <<embedding1, embedding2, embeddings, centroid, normVars>>
    /\ UNCHANGED <<self_config, vadVars, xfadeVars, bpVars, svcVars, extVars>>

\* Lines 590-591: dot_product / (norm1 * norm2), kept as the three numbers.
SimilarityDivide ==
    /\ similarity.pc = "divide"
    /\ similarity' = [pc |-> "returned",
                      value |-> <<similarity.dot_product, similarity.norm1, similarity.norm2>>,
                      divided |-> TRUE]
    /\ UNCHANGED <<embedding1, embedding2, embeddings, centroid, normVars>>
    /\ UNCHANGED <<self_config, vadVars, xfadeVars, bpVars, svcVars, extVars>>

\* Lines 856-864: the request is refused when it carries no embedding.
CentroidValidate ==
    /\ centroid.pc = "call"
    /\ IF Len(embeddings) = 0
       THEN centroid' = [pc |-> "responded", status |-> 400,
                         body |-> [error |-> "embeddings must be a non-empty list"]]
       ELSE centroid' = [pc |-> "array"]
    /\ UNCHANGED <<embedding1, embedding2, similarity, embeddings, normVars>>
    /\ UNCHANGED <<self_config, vadVars, xfadeVars, bpVars, svcVars, extVars>>

\* CentroidArray cutting every list to the length of the shortest.
CentroidArrayTruncating ==
    /\ centroid.pc = "array"
    /\ centroid' = [pc |-> "mean",
                    array |-> [j \in 1..Len(embeddings) |->
                                 [k \in 1..Len(embeddings[1]) \cap 1..Len(embeddings[Len(embeddings)])
                                    |-> embeddings[j][k]]]]
    /\ UNCHANGED <<embedding1, embedding2, similarity, embeddings, normVars>>
    /\ UNCHANGED <<self_config, vadVars, xfadeVars, bpVars, svcVars, extVars>>

\* Line 867: np.array(embeddings, dtype=np.float32) raises ValueError on lists
\* of differing lengths; lines 877-879 answer 500 with the message.
CentroidArray ==
    /\ centroid.pc = "array"
    /\ IF Rectangular(embeddings)
       THEN centroid' = [pc |-> "mean", array |-> embeddings]
       ELSE centroid' = [pc |-> "responded", status |-> 500,
                         body |-> [error |-> "ValueError"]]
    /\ UNCHANGED <<embedding1, embedding2, similarity, embeddings, normVars>>
    /\ UNCHANGED <<self_config, vadVars, xfadeVars, bpVars, svcVars, extVars>>

\* Lines 868-875: the mean over the vectors, and the answer.
CentroidMean ==
    /\ centroid.pc = "mean"
    /\ centroid' = [pc |-> "responded", status |-> 200,
                    body |-> [success |-> TRUE,
                              centroid |-> MeanAxis0(centroid.array),
                              dimension |-> Len(MeanAxis0(centroid.array)),
                              embedding_count |-> Len(embeddings)]]
    /\ UNCHANGED <<embedding1, embedding2, similarity, embeddings, normVars>>
    /\ UNCHANGED <<self_config, vadVars, xfadeVars, bpVars, svcVars, extVars>>

(***************************************************************************)
(* code-executor-service.py: OutputCapture.  A text is a sequence of       *)
(* characters; a stream stores what StringIO.write appended.               *)
(***************************************************************************)
\* OutputCapture.__init__
NewOutputCapture(max_size) ==
    [max_size |-> max_size, stdout |-> <<>>, stderr |-> <<>>,
     _stdout_size |-> 0, _stderr_size |-> 0, truncated |-> FALSE]

\* text[:remaining]
Slice(text, remaining) == SubSeq(text, 1, remaining)

\* WriteStdout storing the whole text while there is room for a character.
WriteStdoutWhole(c, text) ==
    IF c._stdout_size < c.max_size
    THEN [c EXCEPT !.stdout = @ \o text, !._stdout_size = @ + Len(text)]
    ELSE c

\* OutputCapture.write_stdout
WriteStdout(c, text) ==
    IF c._stdout_size < c.max_size
    THEN LET remaining == c.max_size - c._stdout_size
         IN  [c EXCEPT !.stdout = IF Len(text) > remaining THEN @ \o Slice(text, remaining)
                                  ELSE @ \o text,
                       !.truncated = IF Len(text) > remaining THEN TRUE ELSE @,
                       !._stdout_size = @ + Len(text)]
    ELSE c

\* OutputCapture.write_stderr
WriteStderr(c, text) ==
    IF c._stderr_size < c.max_size
    THEN LET remaining == c.max_size - c._stderr_size
         IN  [c EXCEPT !.stderr = IF Len(text) > remaining THEN @ \o Slice(text, remaining)
                                  ELSE @ \o text,
                       !.truncated = IF Len(text) > remaining THEN TRUE ELSE @,
                       !._stderr_size = @ + Len(text)]
    ELSE c

\* OutputCapture.get_output
GetOutput(c) ==
    IF c.truncated
    THEN [stdout |-> c.stdout, stderr |-> c.stderr, truncated |-> TRUE,
          note |-> <<"Output truncated to", c.max_size, "bytes">>]
    ELSE [stdout |-> c.stdout, stderr |-> c.stderr]

\* The texts a write is given: up to MaxOutputSize + 1 characters.
Characters == {"a", "b"}

Texts == UNION {[1..n -> Characters] : n \in 0..(MaxOutputSize + 1)}

CaptureIdle ==
    /\ capture = NewOutputCapture(0)
    /\ written = [stdout |-> <<>>, stderr |-> <<>>]

\* A call of write_stdout.
CaptureWriteStdout(text) ==
    /\ Len(written.stdout) + Len(written.stderr) < MaxWritten
    /\ capture' = WriteStdout(capture, text)
    /\ written' = [written EXCEPT !.stdout = @ \o text]
    /\ UNCHANGED <<execVars, fileVars, pipelineVars>>

\* A call of write_stderr.
CaptureWriteStderr(text) ==
    /\ Len(written.stdout) + Len(written.stderr) < MaxWritten
    /\ capture' = WriteStderr(capture, text)
    /\ written' = [written EXCEPT !.stderr = @ \o text]
    /\ UNCHANGED <<execVars, fileVars, pipelineVars>>

(***************************************************************************)
(* code-executor-service.py: RestrictedExecutor.execute, called on one     *)
(* executor by the request threads of the threaded server.  The submitted  *)
(* code is a sequence of statements, each one step of the call:            *)
(*   print            print(...) , written to whatever sys.stdout names    *)
(*   bind_result      result = ... at top level                            *)
(*   observe          reads an attribute of a pre-imported module and an   *)
(*                    entry of __builtins__                                *)
(*   mutate_module    math.x = ... , an attribute set on a module          *)
(*   mutate_builtins  __builtins__['len'] = ...                            *)
(*   raise            raises an Exception                                  *)
(*   loop             while True: pass                                     *)
(* and syntax_error stands for a text compile refuses.                     *)
(***************************************************************************)
Executions == 1..MaxExecutions

Codes ==
    { <<"print", "bind_result">>,
      <<"observe", "mutate_module", "mutate_builtins">>,
      <<"print", "raise">>,
      <<"loop">>,
      <<"syntax_error">> }

\* The timeout the executor is built with: MAX_EXECUTION_TIME, or less.
Timeouts == {1, 30}

\* The keys _setup_safe_globals puts in self.safe_globals.
SafeGlobalsKeys == {"__builtins__", "__name__", "__doc__", "math"}

None == [kind |-> "None"]

\* f"Code execution timed out after {self.timeout} seconds"
TimedOutError(timeout) == [kind |-> "Code execution timed out after", seconds |-> timeout]

NoExecution(timeout) ==
    [pc |-> "idle", timeout |-> timeout, code |-> <<>>, ip |-> 0,
     output |-> NewOutputCapture(MaxOutputSize),
     old_stdout |-> 0, old_stderr |-> 0,
     timer |-> "none", timed_out |-> FALSE,
     exec_globals |-> {}, exec_locals |-> {}, result |-> None, error |-> None,
     observed |-> <<>>,
     finished |-> "no",            \* how the code ended: completed, raised
     fired_running |-> FALSE,      \* the timer fired before the code had ended
     ret |-> <<>>]

\* Lines 167-198: the locals of the call; the streams in place are saved.
ExecuteCall(e, code) ==
    /\ execution[e].pc = "idle"
    /\ (e > 1 => execution[e - 1].pc # "idle")     \* calls are numbered as they arrive
    /\ execution' = [execution EXCEPT ![e].pc = "install", ![e].code = code,
                                      ![e].old_stdout = sys_stdout,
                                      ![e].old_stderr = sys_stderr]
    /\ UNCHANGED <<sys_stdout, sys_stderr, builtins_obj, modules_obj, safe_globals>>
    /\ UNCHANGED <<capVars, fileVars, pipelineVars>>

\* Lines 201-212: the captures are installed in sys.stdout and sys.stderr,
\* the timer is started, the code compiled (SyntaxError at line 229) and the
\* namespaces of this execution made.
InstallCapture(e) ==
    /\ execution[e].pc = "install"
    /\ sys_stdout' = e
    /\ sys_stderr' = e
    /\ IF execution[e].code = <<"syntax_error">>
       THEN execution' = [execution EXCEPT ![e].pc = "finally", ![e].timer = "running",
                                           ![e].finished = "raised",
                                           ![e].error = [kind |-> "SyntaxError"]]
       ELSE execution' = [execution EXCEPT ![e].pc = "exec", ![e].timer = "running",
                                           ![e].ip = 1,
                                           ![e].exec_globals = safe_globals,
                                           ![e].exec_locals = {}]
    /\ UNCHANGED <<builtins_obj, modules_obj, safe_globals>>
    /\ UNCHANGED <<capVars, fileVars, pipelineVars>>

\* TimeoutHandler raising in the thread that runs the code.
TimeoutHandlerPreempting(x) ==
    [x EXCEPT !.timed_out = TRUE,
              !.pc = IF @ \in {"compile", "exec"} THEN "finally" ELSE @,
              !.error = IF x.pc \in {"compile", "exec"} THEN TimedOutError(x.timeout) ELSE @]

\* Lines 193-195: timeout_handler sets the event.
TimeoutHandler(x) == [x EXCEPT !.timed_out = TRUE]

\* The timer thread of call e runs timeout_handler, self.timeout seconds
\* after the start unless cancelled before.
TimerFires(e) ==
    /\ execution[e].timer = "running"
    /\ execution' = [execution EXCEPT
                       ![e] = [TimeoutHandler(@) EXCEPT
                                 !.timer = "fired",
                                 !.fired_running = (execution[e].finished = "no")]]
    /\ UNCHANGED <<sys_stdout, sys_stderr, builtins_obj, modules_obj, safe_globals>>
    /\ UNCHANGED <<capVars, fileVars, pipelineVars>>

\* Where the call stands after a statement that did not raise: line 218 once
\* the last statement has run.
Advance(x) ==
    IF x.ip = Len(x.code)
    THEN [x EXCEPT !.ip = @ + 1, !.pc = "check", !.finished = "completed"]
    ELSE [x EXCEPT !.ip = @ + 1]

\* The traceback the handler of lines 231-237 writes for call e.
Traceback(e) == <<0 - e>>

\* Line 215: exec runs the next statement of the code.
Statement(e) ==
    /\ execution[e].pc = "exec"
    /\ LET stmt == execution[e].code[execution[e].ip]
       IN  CASE stmt = "print" ->
                  \* StdoutCapture.write of the object sys.stdout names
                  /\ execution' =
                       IF sys_stdout = 0
                       THEN [execution EXCEPT ![e] = Advance(@)]
                       ELSE [[execution EXCEPT ![sys_stdout].output = WriteStdout(@, <<e>>)]
                                EXCEPT ![e] = Advance(@)]
                  /\ UNCHANGED <<builtins_obj, modules_obj>>
             [] stmt = "bind_result" ->
                  /\ execution' = [execution EXCEPT
                                     ![e] = Advance([@ EXCEPT !.exec_locals = @ \cup {"result"}])]
                  /\ UNCHANGED <<builtins_obj, modules_obj>>
             [] stmt = "observe" ->
                  /\ execution' = [execution EXCEPT
                                     ![e] = Advance([@ EXCEPT
                                              !.observed = <<modules_obj, builtins_obj>>])]
                  /\ UNCHANGED <<builtins_obj, modules_obj>>
             [] stmt = "mutate_module" ->
                  /\ modules_obj' = e
                  /\ execution' = [execution EXCEPT ![e] = Advance(@)]
                  /\ UNCHANGED builtins_obj
             [] stmt = "mutate_builtins" ->
                  /\ builtins_obj' = e
                  /\ execution' = [execution EXCEPT ![e] = Advance(@)]
                  /\ UNCHANGED modules_obj
             [] stmt = "raise" ->
                  \* lines 231-237: the error and the traceback on stderr
                  /\ execution' = [execution EXCEPT
                                     ![e].pc = "finally", ![e].finished = "raised",
                                     ![e].error = [kind |-> "ValueError"],
                                     ![e].output = WriteStderr(@, Traceback(e))]
                  /\ UNCHANGED <<builtins_obj, modules_obj>>
             [] stmt = "loop" ->
                  /\ UNCHANGED execution       \* the statement never ends
                  /\ UNCHANGED <<builtins_obj, modules_obj>>
    /\ UNCHANGED <<sys_stdout, sys_stderr, safe_globals>>
    /\ UNCHANGED <<capVars, fileVars, pipelineVars>>

\* Lines 218-226: the flag is looked at once exec has returned.
CheckTimedOut(e) ==
    /\ execution[e].pc = "check"
    /\ execution' = [execution EXCEPT
                       ![e].pc = "finally",
                       ![e].error = IF execution[e].timed_out
                                    THEN TimedOutError(execution[e].timeout) ELSE @,
                       ![e].result = IF ~execution[e].timed_out
                                        /\ "result" \in execution[e].exec_locals
                                     THEN [kind |-> "result", of |-> e] ELSE @]
    /\ UNCHANGED <<sys_stdout, sys_stderr, builtins_obj, modules_obj, safe_globals>>
    /\ UNCHANGED <<capVars, fileVars, pipelineVars>>

\* Lines 238-243: the timer is cancelled and the saved streams put back.
Finally(e) ==
    /\ execution[e].pc = "finally"
    /\ sys_stdout' = execution[e].old_stdout
    /\ sys_stderr' = execution[e].old_stderr
    /\ execution' = [execution EXCEPT
                       ![e].pc = "return",
                       ![e].timer = IF @ = "running" THEN "cancelled" ELSE @]
    /\ UNCHANGED <<builtins_obj, modules_obj, safe_globals>>
    /\ UNCHANGED <<capVars, fileVars, pipelineVars>>

\* Lines 245-253: the result of the call.
ExecuteReturn(e) ==
    /\ execution[e].pc = "return"
    /\ execution' = [execution EXCEPT
                       ![e].pc = "returned",
                       ![e].ret = [success |-> execution[e].error = None,
                                   result |-> execution[e].result,
                                   error |-> execution[e].error,
                                   output |-> GetOutput(execution[e].output)]]
    /\ UNCHANGED <<sys_stdout, sys_stderr, builtins_obj, modules_obj, safe_globals>>
    /\ UNCHANGED <<capVars, fileVars, pipelineVars>>

ExecutorIdle ==
    /\ sys_stdout = 0
    /\ sys_stderr = 0
    /\ builtins_obj = 0
    /\ modules_obj = 0
    /\ safe_globals = {}
    /\ execution = <<>>

(***************************************************************************)
(* embedding-service.py: extract_embedding with convert_to_wav, called by  *)
(* the request threads.  A path is [dir, n]: the caller's audio files, and *)
(* the file mkstemp makes for call e.                                      *)
(***************************************************************************)
Extractions == 1..MaxExtractions

WavFile == [dir |-> "audio", n |-> 1]       \* a file torchaudio.load reads

WebmFile == [dir |-> "audio", n |-> 2]      \* a file that needs ffmpeg

AbsentFile == [dir |-> "audio", n |-> 3]    \* a path that names no file

AudioFiles == {WavFile, WebmFile}

\* tempfile.mkstemp(suffix='.wav') in call e: a name no other call gets.
TempPath(e) == [dir |-> "tmp", n |-> e]

NoPath == [dir |-> "None", n |-> 0]

\* How subprocess.run(['ffmpeg', ...], timeout=60) can end: exit status 0,
\* another exit status, TimeoutExpired, FileNotFoundError (no ffmpeg), or
\* another OSError starting the process (PermissionError, for one).
FfmpegOutcomes == {"ok", "nonzero", "TimeoutExpired", "FileNotFoundError", "OSError"}

NoExtraction ==
    [pc |-> "idle", audio_path |-> NoPath, apply_preprocessing |-> TRUE,
     temp_path |-> NoPath, wav_path |-> NoPath, temp_wav_path |-> NoPath,
     error |-> "None"]

\* Lines 509-516: the call; FileNotFoundError when the path names no file.
ExtractCall(e, audio_path, apply_preprocessing) ==
    /\ extraction[e].pc = "idle"
    /\ (e > 1 => extraction[e - 1].pc # "idle")    \* calls are numbered as they arrive
    /\ extraction' = [extraction EXCEPT
                        ![e] = [NoExtraction EXCEPT
                                  !.audio_path = audio_path,
                                  !.apply_preprocessing = apply_preprocessing,
                                  !.pc = IF audio_path \in files THEN "probe" ELSE "finally",
                                  !.error = IF audio_path \in files THEN "None"
                                            ELSE "FileNotFoundError"]]
    /\ UNCHANGED files
    /\ UNCHANGED <<capVars, execVars, pipelineVars>>

\* Lines 455-459 and 519-520: convert_to_wav returns the path itself when
\* torchaudio.load reads the file.
Probe(e) ==
    /\ extraction[e].pc = "probe"
    /\ IF extraction[e].audio_path = WavFile
       THEN extraction' = [extraction EXCEPT ![e].pc = "load",
                                             ![e].wav_path = extraction[e].audio_path,
                                             ![e].temp_wav_path = NoPath]
       ELSE extraction' = [extraction EXCEPT ![e].pc = "mkstemp"]
    /\ UNCHANGED files
    /\ UNCHANGED <<capVars, execVars, pipelineVars>>

\* Lines 462-463: the temporary file is made.
Mkstemp(e) ==
    /\ extraction[e].pc = "mkstemp"
    /\ files' = files \cup {TempPath(e)}
    /\ extraction' = [extraction EXCEPT ![e].pc = "ffmpeg", ![e].temp_path = TempPath(e)]
    /\ UNCHANGED <<capVars, execVars, pipelineVars>>

\* The outcomes after which convert_to_wav removes temp_path before raising
\* (lines 482-485, 490-495); any other exception passes through.
UnlinkOnError(outcome) == outcome \in {"nonzero", "TimeoutExpired", "FileNotFoundError"}

\* Lines 465-495 and 519-520: ffmpeg runs; convert_to_wav returns temp_path
\* or raises.
Ffmpeg(e, outcome) ==
    /\ extraction[e].pc = "ffmpeg"
    /\ IF outcome = "ok"
       THEN /\ extraction' = [extraction EXCEPT ![e].pc = "load",
                                                ![e].wav_path = extraction[e].temp_path,
                                                ![e].temp_wav_path = extraction[e].temp_path]
            /\ UNCHANGED files
       ELSE /\ extraction' = [extraction EXCEPT
                                ![e].pc = "finally",
                                ![e].error = IF UnlinkOnError(outcome) THEN "RuntimeError"
                                             ELSE outcome]
            /\ files' = IF UnlinkOnError(outcome) THEN files \ {extraction[e].temp_path}
                        ELSE files
    /\ UNCHANGED <<capVars, execVars, pipelineVars>>

\* Line 523: torchaudio.load(wav_path), which can raise.
Load(e, ok) ==
    /\ extraction[e].pc = "load"
    /\ extraction' = [extraction EXCEPT ![e].pc = IF ok THEN "preprocess" ELSE "finally",
                                        ![e].error = IF ok THEN @ ELSE "LoadError"]
    /\ UNCHANGED files
    /\ UNCHANGED <<capVars, execVars, pipelineVars>>

\* Lines 526-536: process, or the plain resampling, either of which can raise.
Preprocess(e, ok) ==
    /\ extraction[e].pc = "preprocess"
    /\ extraction' = [extraction EXCEPT ![e].pc = IF ok THEN "encode" ELSE "finally",
                                        ![e].error = IF ok THEN @
                                                     ELSE IF extraction[e].apply_preprocessing
                                                     THEN "ProcessError" ELSE "ResampleError"]
    /\ UNCHANGED files
    /\ UNCHANGED <<capVars, execVars, pipelineVars>>

\* Lines 538-554: the model encodes the waveform, which can raise.
Encode(e, ok) ==
    /\ extraction[e].pc = "encode"
    /\ extraction' = [extraction EXCEPT ![e].pc = "finally",
                                        ![e].error = IF ok THEN @ ELSE "EncodeError"]
    /\ UNCHANGED files
    /\ UNCHANGED <<capVars, execVars, pipelineVars>>

\* Lines 556-565: the exception is raised again, or the embedding returned,
\* after the temporary file, if temp_wav_path names one, is removed.
Cleanup(e) ==
    /\ extraction[e].pc = "finally"
    /\ files' = IF extraction[e].temp_wav_path # NoPath /\ extraction[e].temp_wav_path \in files
                THEN files \ {extraction[e].temp_wav_path}
                ELSE files
    /\ extraction' = [extraction EXCEPT
                        ![e].pc = IF extraction[e].error = "None" THEN "returned" ELSE "raised"]
    /\ UNCHANGED <<capVars, execVars, pipelineVars>>

FilesIdle ==
    /\ files = {}
    /\ extraction = [pc |-> "idle"]

OtherServicesIdle ==
    /\ CaptureIdle
    /\ ExecutorIdle
    /\ FilesIdle

Init ==
    /\ OtherServicesIdle
    /\ self_config = DefaultConfig
    /\ VadIdle
    /\ XfadeIdle
    /\ BandpassIdle
    /\ ServiceIdle
    /\ NormalizeIdle
    /\ VectorsIdle

Next ==
    \/ \E r \in Runs, w \in Inputs \cup InvalidInputs : ProcessCall(r, w[1], w[2], w[3])
    \/ \E r \in Runs : Resample(r)
    \/ \E r \in Runs : Mono(r)
    \/ \E r \in Runs : Bandpass(r)
    \/ \E r \in Runs : PreEmphasis(r)
    \/ \E r \in Runs : Vad(r)
    \/ \E r \in Runs : Normalize(r)
    \/ \E r \in Runs : Finish(r)
    \/ \E p \in Posts, data \in Patches : PostRefused(p, data)
    \/ \E p \in Posts, data \in Patches : PostBuild(p, data)
    \/ \E p \in Posts : PostSwap(p)

Spec == Init /\ [][Next]_vars

(***************************************************************************)
(* _apply_vad called on its own.                                           *)
(***************************************************************************)
InitVad ==
    /\ OtherServicesIdle
    /\ self_config \in VadConfigs
    /\ sample_rate = CanonicalRate
    /\ audio \in VadInputs(self_config, sample_rate)
    /\ vpc = "call"
    /\ speech_frames = <<>>
    /\ speech_segments = <<>>
    /\ merged_segments = <<>>
    /\ speech_audio = <<>>
    /\ combined = -1
    /\ vad_ret = [returned |-> FALSE]
    /\ XfadeIdle
    /\ BandpassIdle
    /\ ServiceIdle
    /\ NormalizeIdle
    /\ VectorsIdle

NextVad ==
    \/ VadDetect
    \/ VadScan
    \/ VadFailOpen
    \/ VadMerge
    \/ VadExtract
    \/ VadSpliceCall
    \/ VadSplicing
    \/ VadSpliceReturn
    \/ VadSingle
    \/ VadReturn

SpecVad == InitVad /\ [][NextVad]_vars

(***************************************************************************)
(* _crossfade_segments called on its own with any list of segments.        *)
(***************************************************************************)
SegmentLens == {0, 80, 160, 240}

InitXfade ==
    /\ OtherServicesIdle
    /\ self_config = DefaultConfig
    /\ VadIdle
    /\ BandpassIdle
    /\ ServiceIdle
    /\ NormalizeIdle
    /\ VectorsIdle
    /\ segments \in UNION {[1..n -> SegmentLens] : n \in 0..MaxSegments}
    /\ xpc = "call"
    /\ result = -1
    /\ xi = 0
    /\ faded = <<>>
    /\ xfade_ret = -1

NextXfade ==
    \/ CrossfadeEnter /\ UNCHANGED <<self_config, vadVars, bpVars, svcVars, fnVars>>
    \/ CrossfadeFold /\ UNCHANGED <<self_config, vadVars, bpVars, svcVars, fnVars>>
    \/ CrossfadeReturn /\ UNCHANGED <<self_config, vadVars, bpVars, svcVars, fnVars>>

SpecXfade == InitXfade /\ [][NextXfade]_vars

(***************************************************************************)
(* _apply_bandpass_filter called by several threads on one preprocessor.   *)
(***************************************************************************)
InitBandpass ==
    /\ OtherServicesIdle
    /\ self_config \in BandpassConfigs
    /\ VadIdle
    /\ XfadeIdle
    /\ BandpassIdle
    /\ ServiceIdle
    /\ NormalizeIdle
    /\ VectorsIdle

NextBandpass ==
    \/ \E c \in Callers, sr \in BandpassRates : BandpassCall(c, sr)
    \/ \E c \in Callers : BandpassClamp(c)
    \/ \E c \in Callers : BandpassLookup(c)
    \/ \E c \in Callers : BandpassDesign(c)
    \/ \E c \in Callers : BandpassInsert(c)
    \/ \E c \in Callers : BandpassFilter(c)

SpecBandpass == InitBandpass /\ [][NextBandpass]_vars

(***************************************************************************)
(* _normalize_amplitude applied again and again to one waveform.           *)
(***************************************************************************)
InitNormalize ==
    /\ OtherServicesIdle
    /\ self_config = DefaultConfig
    /\ VadIdle
    /\ XfadeIdle
    /\ BandpassIdle
    /\ ServiceIdle
    /\ VectorsIdle
    /\ target_amplitude \in TargetAmplitudes
    /\ normalized \in {<<w>> : w \in Waveforms}

NextNormalize == NormalizeAmplitude

SpecNormalize == InitNormalize /\ [][NextNormalize]_vars

(***************************************************************************)
(* One call of compute_similarity and one request to /compute-centroid.    *)
(***************************************************************************)
InitVectors ==
    /\ OtherServicesIdle
    /\ self_config = DefaultConfig
    /\ VadIdle
    /\ XfadeIdle
    /\ BandpassIdle
    /\ ServiceIdle
    /\ NormalizeIdle
    /\ embedding1 \in Vectors
    /\ embedding2 \in Vectors
    /\ similarity = [pc |-> "call"]
    /\ embeddings \in VectorLists
    /\ centroid = [pc |-> "call"]

NextVectors ==
    \/ SimilarityArrays
    \/ SimilarityDot
    \/ SimilarityNorms
    \/ SimilarityDivide
    \/ CentroidValidate
    \/ CentroidArray
    \/ CentroidMean

SpecVectors == InitVectors /\ [][NextVectors]_vars

(***************************************************************************)
(* Successive writes to one OutputCapture.                                 *)
(***************************************************************************)
InitCapture ==
    /\ self_config = DefaultConfig
    /\ VadIdle
    /\ XfadeIdle
    /\ BandpassIdle
    /\ ServiceIdle
    /\ NormalizeIdle
    /\ VectorsIdle
    /\ ExecutorIdle
    /\ FilesIdle
    /\ capture = NewOutputCapture(MaxOutputSize)
    /\ written = [stdout |-> <<>>, stderr |-> <<>>]

NextCapture ==
    \/ \E text \in Texts : CaptureWriteStdout(text)
    \/ \E text \in Texts : CaptureWriteStderr(text)

SpecCapture == InitCapture /\ [][NextCapture]_vars

(***************************************************************************)
(* Calls of execute on the executor of the service, one per request thread.*)
(***************************************************************************)
InitExecute ==
    /\ self_config = DefaultConfig
    /\ VadIdle
    /\ XfadeIdle
    /\ BandpassIdle
    /\ ServiceIdle
    /\ NormalizeIdle
    /\ VectorsIdle
    /\ CaptureIdle
    /\ FilesIdle
    /\ sys_stdout = 0
    /\ sys_stderr = 0
    /\ builtins_obj = 0
    /\ modules_obj = 0
    /\ safe_globals = SafeGlobalsKeys
    /\ \E timeout \in Timeouts : execution = [e \in Executions |-> NoExecution(timeout)]

NextExecute ==
    \/ \E e \in Executions, code \in Codes : ExecuteCall(e, code)
    \/ \E e \in Executions : InstallCapture(e)
    \/ \E e \in Executions : TimerFires(e)
    \/ \E e \in Executions : Statement(e)
    \/ \E e \in Executions : CheckTimedOut(e)
    \/ \E e \in Executions : Finally(e)
    \/ \E e \in Executions : ExecuteReturn(e)

SpecExecute == InitExecute /\ [][NextExecute]_vars

(***************************************************************************)
(* Calls of extract_embedding, one per request thread.                     *)
(***************************************************************************)
InitExtract ==
    /\ self_config = DefaultConfig
    /\ VadIdle
    /\ XfadeIdle
    /\ BandpassIdle
    /\ ServiceIdle
    /\ NormalizeIdle
    /\ VectorsIdle
    /\ CaptureIdle
    /\ ExecutorIdle
    /\ files = AudioFiles
    /\ extraction = [e \in Extractions |-> NoExtraction]

NextExtract ==
    \/ \E e \in Extractions, audio_path \in AudioFiles \cup {AbsentFile},
          apply_preprocessing \in BOOLEAN :
            ExtractCall(e, audio_path, apply_preprocessing)
    \/ \E e \in Extractions : Probe(e)
    \/ \E e \in Extractions : Mkstemp(e)
    \/ \E e \in Extractions, outcome \in FfmpegOutcomes : Ffmpeg(e, outcome)
    \/ \E e \in Extractions, ok \in BOOLEAN : Load(e, ok)
    \/ \E e \in Extractions, ok \in BOOLEAN : Preprocess(e, ok)
    \/ \E e \in Extractions, ok \in BOOLEAN : Encode(e, ok)
    \/ \E e \in Extractions : Cleanup(e)

SpecExtract == InitExtract /\ [][NextExtract]_vars

(***************************************************************************)
(* Properties of _apply_vad and _crossfade_segments.                       *)
(***************************************************************************)
\* The maximal runs [s, e) of consecutive speech frames of sf, frames counted from 0.
MaximalRuns(sf) ==
    { r \in (0..Len(sf)) \X (0..Len(sf)) :
        /\ r[1] < r[2]
        /\ \A k \in r[1]..(r[2] - 1) : sf[k + 1]
        /\ (r[1] = 0 \/ ~sf[r[1]])
        /\ (r[2] = Len(sf) \/ ~sf[r[2] + 1]) }

SurvivingRuns(sf, minf) == { r \in MaximalRuns(sf) : r[2] - r[1] >= minf }

RECURSIVE OrderedByStart(_)
OrderedByStart(S) ==
    IF S = {} THEN <<>>
    ELSE LET first == CHOOSE r \in S : \A q \in S : r[1] <= q[1]
         IN  <<first>> \o OrderedByStart(S \ {first})

FramesOf(seg) == seg[1]..(seg[2] - 1)

CoveredFrames(segs) == UNION { FramesOf(segs[k]) : k \in 1..Len(segs) }

VadScanned == vpc \notin {"idle", "call", "scan"}

VadMerged == vpc \notin {"idle", "call", "scan", "scanned"} /\ speech_segments # <<>>

\* C2: whenever no speech run survives the minimum-length filter, _apply_vad
\* returns the input waveform itself (same samples, same length) with the
\* statistics speech_segments=0, speech_ratio=0.0, kept_original=true, and
\* takes no other path.
C2_FailOpen ==
    (vpc \notin {"idle", "call", "scan", "scanned"}
        /\ SurvivingRuns(speech_frames, MinSpeechFrames(self_config)) = {})
    => /\ vpc = "done"
       /\ vad_ret.returned
       /\ vad_ret.waveform = InputWaveform
       /\ vad_ret.stats = [speech_segments |-> 0, speech_ratio |-> 0,
                           kept_original |-> TRUE]

\* A call that found speech frames, none of them in a run long enough, has returned.
C2_Witness ==
    /\ vpc = "done"
    /\ \E j \in 1..Len(speech_frames) : speech_frames[j]
    /\ SurvivingRuns(speech_frames, MinSpeechFrames(self_config)) = {}
    /\ vad_ret.stats.kept_original

\* C3: the speech_ratio _apply_vad reports lies in [0, 1]: the spliced output
\* never has more samples than the input.
C3_SpeechRatioInUnitInterval ==
    (vpc = "done")
    => /\ vad_ret.stats.speech_ratio >= 0
       /\ vad_ret.stats.speech_ratio <= 1000
       /\ vad_ret.waveform.stop - vad_ret.waveform.start
            <= AudioLen(audio, self_config, sample_rate)

\* C6: every segment (start, end) recorded by _apply_vad, before and after
\* merging, satisfies 0 <= start < end <= num_frames.
SegmentInBounds(seg, num_frames) == 0 <= seg[1] /\ seg[1] < seg[2] /\ seg[2] <= num_frames

C6_SegmentsWithinFrames ==
    /\ \A k \in 1..Len(speech_segments) :
          SegmentInBounds(speech_segments[k], Len(speech_frames))
    /\ \A k \in 1..Len(merged_segments) :
          SegmentInBounds(merged_segments[k], Len(speech_frames))

\* floor(2 * ms / frame_ms)
FloorFrames(ms, frame_ms) == (2 * ms) \div frame_ms

ClaimedSegmentOf(span, padf, num_frames) ==
    <<Max(0, span[1] - padf), Min(num_frames, span[2] + padf)>>

\* C7: the segments collected before merging are exactly, for each maximal run
\* [s, e) of speech frames with e - s >= min_speech_frames, the range
\* [max(0, s - padding_frames), min(num_frames, e + padding_frames)), with
\* min_speech_frames = floor(vad_min_speech_ms / vad_frame_ms * 2) and
\* padding_frames = floor(vad_padding_ms / vad_frame_ms * 2).
C7_SegmentsArePaddedRuns ==
    VadScanned
    => LET minf == FloorFrames(self_config.vad_min_speech_ms, self_config.vad_frame_ms)
           padf == FloorFrames(self_config.vad_padding_ms, self_config.vad_frame_ms)
           runs == OrderedByStart(SurvivingRuns(speech_frames, minf))
       IN  speech_segments =
             [k \in 1..Len(runs) |-> ClaimedSegmentOf(runs[k], padf, Len(speech_frames))]

\* C8: the merged list is sorted by start, each start is strictly greater than
\* the previous end, the frames it covers are the frames the padded runs cover,
\* and speech_segments reports the number of merged segments.
C8_MergedDisjointCover ==
    /\ VadMerged
       => /\ \A k \in 1..(Len(merged_segments) - 1) :
                /\ merged_segments[k][1] <= merged_segments[k + 1][1]
                /\ merged_segments[k + 1][1] > merged_segments[k][2]
          /\ CoveredFrames(merged_segments) = CoveredFrames(speech_segments)
    /\ (vpc = "done" /\ speech_segments # <<>>)
       => vad_ret.stats.speech_segments = Len(merged_segments)

\* A call has returned after merging two overlapping or adjacent padded runs.
C8_Witness ==
    /\ vpc = "done"
    /\ Len(speech_segments) = 2
    /\ Len(merged_segments) = 1
    /\ vad_ret.stats.speech_segments = 1

Count(bs) == Cardinality({k \in 1..Len(bs) : bs[k]})

Prefix(s, n) == [k \in 1..n |-> s[k]]

\* The statement of C4 as claimed: the join of segments k and k+1 is crossfaded
\* iff both have at least 160 samples, and the output length is the sum of the
\* lengths minus 160 for each such pair.
C4_PairwiseCrossfade ==
    (xpc = "returned" /\ Len(segments) >= 2)
    => /\ \A k \in 1..(Len(segments) - 1) :
            faded[k] <=> (segments[k] >= CrossfadeSamples
                          /\ segments[k + 1] >= CrossfadeSamples)
       /\ xfade_ret = SumSeq(segments) - CrossfadeSamples *
            Cardinality({k \in 1..(Len(segments) - 1) :
                            segments[k] >= CrossfadeSamples
                            /\ segments[k + 1] >= CrossfadeSamples})

\* len(result) when segment k+1 is joined: the first k segments less the
\* overlaps of the joins crossfaded before.
AccumulatedLen(k) == SumSeq(Prefix(segments, k)) - CrossfadeSamples * Count(Prefix(faded, k - 1))

\* C4 (amended): in _crossfade_segments over any number of segments, the join
\* of segment k+1 is crossfaded iff the result accumulated from segments 1..k
\* and segment k+1 both have at least 160 samples, otherwise it is a plain
\* concatenation; the output length is the sum of the segment lengths minus
\* 160 for each crossfaded join.
C4_AccumulatedCrossfade ==
    /\ (xpc = "returned" /\ Len(segments) >= 2)
       => /\ Len(faded) = Len(segments) - 1
          /\ \A k \in 1..(Len(segments) - 1) :
                faded[k] <=> (AccumulatedLen(k) >= CrossfadeSamples
                              /\ segments[k + 1] >= CrossfadeSamples)
          /\ xfade_ret = SumSeq(segments) - CrossfadeSamples * Count(faded)
    /\ (xpc = "returned" /\ Len(segments) < 2) => xfade_ret = SumSeq(segments)

\* Three segments spliced, the second shorter than 160 samples and yet the
\* second join crossfaded, because the accumulated result has 160 samples.
C4_Witness ==
    /\ xpc = "returned"
    /\ Len(segments) = 3
    /\ segments[2] < CrossfadeSamples
    /\ faded = <<FALSE, TRUE>>

\* C5: splicing exactly two segments a, b gives len(a) + len(b) - 160 when
\* both have at least 160 samples and len(a) + len(b) otherwise.
C5_TwoSegmentLength ==
    (xpc = "returned" /\ Len(segments) = 2)
    => xfade_ret = IF segments[1] >= CrossfadeSamples /\ segments[2] >= CrossfadeSamples
                   THEN segments[1] + segments[2] - CrossfadeSamples
                   ELSE segments[1] + segments[2]

\* Two segments of at least 160 samples have been spliced with an overlap.
C5_Witness ==
    /\ xpc = "returned"
    /\ Len(segments) = 2
    /\ segments[1] >= CrossfadeSamples
    /\ segments[2] > CrossfadeSamples
    /\ xfade_ret = segments[1] + segments[2] - CrossfadeSamples

(***************************************************************************)
(* Properties of _apply_bandpass_filter.                                   *)
(***************************************************************************)
BandpassClamped(c) == bp[c].pc \in {"lookup", "design", "insert", "filter", "returned", "raised"}

\* C10: for every bandpass_low_hz, bandpass_high_hz and sample rate, the
\* normalized cutoffs _apply_bandpass_filter holds after clamping satisfy
\* low < high.
C10_LowBelowHigh ==
    \A c \in Callers : BandpassClamped(c) => bp[c].low < bp[c].high

\* A call has clamped a configuration whose low cutoff is not below its high
\* cutoff.
C10_Witness ==
    \E c \in Callers :
        /\ BandpassClamped(c)
        /\ self_config.bandpass_low_hz >= self_config.bandpass_high_hz
        /\ bp[c].low < bp[c].high

\* C11: after clamping, the low cutoff lies in [0.001, 0.99] and the high cutoff
\* in [low + 0.01, 0.99], and the Butterworth design step never raises.
C11_CutoffsInRangeNoRaise ==
    \A c \in Callers :
        BandpassClamped(c)
        => /\ bp[c].sample_rate <= bp[c].low
           /\ bp[c].low <= 990 * bp[c].sample_rate
           /\ bp[c].low + 10 * bp[c].sample_rate <= bp[c].high
           /\ bp[c].high <= 990 * bp[c].sample_rate
           /\ bp[c].pc # "raised"

\* The coefficients butter designs from the clamped cutoffs of a cache key.
DesignedFor(key) ==
    LET sr == key[1]
        low == ClampLow(Normalized(key[2], sr), sr)
    IN  Butter(key[4], low, ClampHigh(low, Normalized(key[3], sr), sr), sr)

CacheEntriesDesigned == \A key \in DOMAIN filter_cache : filter_cache[key] = DesignedFor(key)

CacheEntriesKept ==
    \A key \in DOMAIN filter_cache :
        key \in DOMAIN filter_cache' /\ filter_cache'[key] = filter_cache[key]

FiltersWithDesigned ==
    \A c \in Callers :
        bp[c].pc \in {"filter", "returned"}
        => bp[c].coeffs = DesignedFor(CacheKey(self_config, bp[c].sample_rate))

\* C12: every entry of the filter cache equals the coefficients designed from
\* its key's clamped cutoffs, an entry once inserted is never removed or
\* replaced by a different value, and a call that hits the cache filters with
\* the coefficients a miss for that key computes.
C12_CacheEntriesStable ==
    /\ [](CacheEntriesDesigned /\ FiltersWithDesigned)
    /\ [][CacheEntriesKept]_vars

\* A call has filtered with coefficients read from the cache while the cache
\* holds the entries of two keys.
C12_Witness ==
    /\ Cardinality(DOMAIN filter_cache) = 2
    /\ \E c \in Callers : bp[c].pc = "returned" /\ bp[c].hit

\* Caller c has designed the filter itself after missing the cache.
Missed(c) == bp[c].pc \in {"insert", "filter", "returned"} /\ ~bp[c].hit

\* C13: when several calls miss the cache for the same key and each inserts its
\* own result, under every interleaving of the unlocked test and insert the
\* values they insert are equal, the cache holds for the key the one value
\* every one of them inserted, and every call filters with the coefficients a
\* call running alone designs for the key.
C13_ConcurrentMissesAgree ==
    \A c \in Callers, d \in Callers :
        (Missed(c) /\ Missed(d) /\ bp[c].sample_rate = bp[d].sample_rate)
        => LET key == CacheKey(self_config, bp[c].sample_rate)
           IN  /\ bp[c].coeffs = bp[d].coeffs
               /\ bp[c].coeffs = DesignedFor(key)
               /\ bp[c].pc \in {"filter", "returned"}
                  => key \in DOMAIN filter_cache /\ filter_cache[key] = bp[c].coeffs

\* Two calls have missed the cache for the same key, each has inserted its
\* result, and both have returned.
C13_Witness ==
    \E c \in Callers, d \in Callers :
        /\ c # d
        /\ bp[c].sample_rate = bp[d].sample_rate
        /\ bp[c].pc = "returned" /\ ~bp[c].hit
        /\ bp[d].pc = "returned" /\ ~bp[d].hit
        /\ Cardinality(DOMAIN filter_cache) = 1

(***************************************************************************)
(* Properties of the pipeline.                                             *)
(***************************************************************************)
\* The tags claimed for a run: the ordered subsequence of the six stage tags
\* selected by the input and the configuration.
ClaimedTags(sr, ch, cfg) ==
    (IF sr # 16000 THEN <<Tag("resample_16k")>> ELSE <<>>)
    \o (IF ch > 1 THEN <<Tag("mono_conversion")>> ELSE <<>>)
    \o <<BandpassTag(cfg.bandpass_low_hz, cfg.bandpass_high_hz)>>
    \o (IF cfg.pre_emphasis_enabled THEN <<Tag("pre_emphasis")>> ELSE <<>>)
    \o (IF cfg.vad_enabled THEN <<Tag("vad")>> ELSE <<>>)
    \o (IF cfg.normalize_audio THEN <<Tag("amplitude_normalization")>> ELSE <<>>)

IsPrefix(s, t) == Len(s) <= Len(t) /\ \A k \in 1..Len(s) : s[k] = t[k]

\* C1: for every run of process, preprocessing_applied is the ordered
\* subsequence of [resample_16k, mono_conversion, bandpass_<low>_<high>Hz,
\* pre_emphasis, vad, amplitude_normalization] with resample_16k iff the input
\* rate is not 16000, mono_conversion iff the input has more than one channel,
\* the bandpass tag always, and the last three iff enabled in the run's
\* configuration; while the run is under way the list is a prefix of it, so no
\* stage runs out of order or twice.
C1_StageOrder ==
    \A r \in Runs :
        (run[r].pc # "idle" /\ DOMAIN run[r].metadata # {})   \* process has started its metadata
        => LET claimed == ClaimedTags(run[r].input[1], run[r].input[2],
                                      preprocessors[run[r].self].config)
           IN  /\ IsPrefix(Applied(r), claimed)
               /\ run[r].pc \in {"finish", "returned"} => Applied(r) = claimed

\* A run on a preprocessor installed by a configuration update, with
\* pre-emphasis disabled, has returned with four tags, resample_16k the first
\* and vad the fourth.
C1_Witness ==
    \E r \in Runs :
        /\ run[r].pc = "returned"
        /\ run[r].self > 1
        /\ Len(Applied(r)) = 4
        /\ ~preprocessors[run[r].self].config.pre_emphasis_enabled
        /\ Applied(r)[1] = Tag("resample_16k")
        /\ Applied(r)[4] = Tag("vad")

\* C9: a pipeline run observes one configuration for all of its stages: however
\* configuration updates interleave with it, all the configuration fields the
\* run has read have the values of one and the same configuration that has
\* been active, never a mix of the fields of two.
C9_OneConfigPerRun ==
    \A r \in Runs :
        \E i \in 1..Len(preprocessors) :
            \A k \in 1..Len(run[r].reads) :
                run[r].reads[k][2] = preprocessors[i].config[run[r].reads[k][1]]

\* A run has returned that began under one configuration and saw another one
\* installed between two of its stages.
C9_Witness ==
    \E r \in Runs :
        /\ run[r].pc = "returned"
        /\ run[r].self # audio_preprocessor
        /\ \E k \in 1..Len(run[r].reads) :
              run[r].reads[k][2] # preprocessors[audio_preprocessor].config[run[r].reads[k][1]]

\* C14: the metadata process returns has the key vad_stats iff vad_enabled is
\* true in the configuration the run used, and vad_stats then has exactly the
\* fields speech_segments, speech_ratio and kept_original.
C14_VadStatsIffVadRan ==
    \A r \in Runs :
        run[r].pc = "returned"
        => /\ ("vad_stats" \in DOMAIN run[r].metadata) <=> RunConfig(r).vad_enabled
           /\ "vad_stats" \in DOMAIN run[r].metadata
              => DOMAIN run[r].metadata.vad_stats =
                   {"speech_segments", "speech_ratio", "kept_original"}

\* A run whose detector kept the original waveform has returned with vad_stats.
C14_Witness ==
    \E r \in Runs :
        /\ run[r].pc = "returned"
        /\ "vad_stats" \in DOMAIN run[r].metadata
        /\ run[r].metadata.vad_stats.kept_original

\* Every sample of the waveform is zero.
AllZero(a) == \A k \in 1..Len(a.blocks) : a.blocks[k] = 0

C16_StagesReturnFreshWaveform ==
    \A r \in Runs :
        \A k \in 1..Len(run[r].stages) :
            LET st == run[r].stages[k]
            IN  /\ st.out.obj # st.in.obj
                /\ st.out.buf # st.in.buf
                /\ st.in.buf \notin st.wrote

(***************************************************************************)
(* Properties of _normalize_amplitude.                                     *)
(***************************************************************************)
\* 2^(ea - emin) * ma for a float a, an integer when emin is at most its exponent.
AtExponent(a, emin) == IF a = Zero THEN 0 ELSE a[1] * Pow2(a[2] - emin)

\* |a - b| <= b * 2^(2 - MantissaBits): a is b up to the rounding of three
\* floating-point operations.
WithinRounding(a, b) ==
    LET emin == Min(a[2], b[2])
        x == AtExponent(a, emin)
        y == AtExponent(b, emin)
    IN  Pow2(MantissaBits) * (IF x >= y THEN x - y ELSE y - x) <= 4 * y

ZeroNorm == NormSquared(embedding1) = 0 \/ NormSquared(embedding2) = 0

\* The statement of C18 as claimed: whenever either vector has zero norm,
\* compute_similarity returns exactly 0.0 without dividing and without raising.
C18_ZeroNormGivesZero ==
    ZeroNorm
    => /\ similarity.pc \notin {"divide", "raised"}
       /\ similarity.pc = "returned" => (similarity.value = 0 /\ ~similarity.divided)

\* C18 (amended): for two vectors of one length, whenever either has zero norm
\* (both included) compute_similarity returns exactly 0.0 without dividing and
\* without raising; for vectors of differing lengths np.dot raises before the
\* norms are looked at, zero or not.
C18_ZeroNormGivesZeroSameLength ==
    /\ (ZeroNorm /\ Len(embedding1) = Len(embedding2))
       => /\ similarity.pc \notin {"divide", "raised"}
          /\ similarity.pc = "returned" => (similarity.value = 0 /\ ~similarity.divided)
    /\ (ZeroNorm /\ Len(embedding1) # Len(embedding2))
       => similarity.pc \in {"call", "dot", "raised"}

\* compute_similarity has returned 0.0 for a zero vector and a vector that is
\* not zero, of the same length.
C18_Witness ==
    /\ similarity.pc = "returned"
    /\ NormSquared(embedding1) = 0
    /\ NormSquared(embedding2) > 0
    /\ similarity.value = 0

\* C19: given vectors of differing lengths, compute_similarity raises and the
\* centroid request is answered with an error, neither giving a similarity or
\* a centroid.
C19_MismatchFailsExplicitly ==
    /\ Len(embedding1) # Len(embedding2)
       => similarity.pc \in {"call", "dot", "raised"}
    /\ ~Rectangular(embeddings)
       => /\ centroid.pc \in {"call", "array", "responded"}
          /\ centroid.pc = "responded"
             => /\ centroid.status = 500
                /\ DOMAIN centroid.body = {"error"}

\* Both operations have failed on vectors of differing lengths.
C19_Witness ==
    /\ Len(embedding1) # Len(embedding2)
    /\ similarity.pc = "raised"
    /\ ~Rectangular(embeddings)
    /\ centroid.pc = "responded"
    /\ centroid.status = 500

(***************************************************************************)
(* process on a waveform no recording holds.                               *)
(***************************************************************************)
\* Run r was given no sample, or a sample rate of 0 or below.
InvalidCall(r) == run[r].pc # "idle" /\ (run[r].input[3] = 0 \/ run[r].input[1] <= 0)

Overridden(before, supplied) ==
    [f \in ConfigFields |-> IF f \in DOMAIN supplied THEN supplied[f] ELSE before[f]]

C24_StoredIsBoundedPrefix ==
    /\ Len(capture.stdout) <= capture.max_size
    /\ Len(capture.stderr) <= capture.max_size
    /\ IsPrefix(capture.stdout, written.stdout)
    /\ IsPrefix(capture.stderr, written.stderr)

\* A write has been cut: the stream holds max_size characters, fewer than
\* were written to it.
C24_Witness ==
    /\ Len(capture.stdout) = capture.max_size
    /\ Len(written.stdout) > capture.max_size
    /\ capture.truncated
    /\ Len(written.stderr) > 0

\* C27: after any sequence of writes, if a character written to stdout or
\* stderr was not stored, truncated is true and get_output includes
\* truncated = true.
C27_LossIsReported ==
    (capture.stdout # written.stdout \/ capture.stderr # written.stderr)
    => /\ capture.truncated
       /\ "truncated" \in DOMAIN GetOutput(capture)
       /\ GetOutput(capture).truncated

(***************************************************************************)
(* Properties of RestrictedExecutor.execute.                               *)
(***************************************************************************)
\* C22: whenever the timeout timer fires before the submitted code has
\* finished, the result of that execution has success = false and the error
\* 'Code execution timed out after <timeout> seconds', whether the code then
\* completes normally or raises.
C22_TimeoutReported ==
    \A e \in Executions :
        (execution[e].pc = "returned" /\ execution[e].fired_running)
        => /\ ~execution[e].ret.success
           /\ execution[e].ret.error = TimedOutError(execution[e].timeout)

\* The timer of call e goes off in this step.
Fires(e) == execution[e].timer = "running" /\ execution'[e].timer = "fired"

C25_ExecutionsStateless ==
    /\ \A e \in Executions :
          execution[e].observed # <<>> => execution[e].observed = <<0, 0>>
    /\ safe_globals = SafeGlobalsKeys
    /\ (\A e \in Executions : execution[e].pc \in {"idle", "returned"})
       => (builtins_obj = 0 /\ modules_obj = 0)

\* The characters of a text.
CharsOf(text) == {text[k] : k \in 1..Len(text)}

\* C26: for any interleaving of execute calls on several request threads, once
\* all of them have returned sys.stdout and sys.stderr are the streams
\* installed before the first call, and the text one execution printed is in
\* the result of that execution only.
C26_StreamsRestoredOutputsApart ==
    (\A e \in Executions : execution[e].pc \in {"idle", "returned"})
    => /\ sys_stdout = 0
       /\ sys_stderr = 0
       /\ \A e \in Executions :
             execution[e].pc = "returned"
             => CharsOf(execution[e].ret.output.stdout) \subseteq {e}

(***************************************************************************)
(* Properties of extract_embedding and convert_to_wav.                     *)
(***************************************************************************)
\* C28: temporary files are never leaked: whenever convert_to_wav has made
\* a temporary WAV file, it no longer exists once extract_embedding has
\* returned or raised, whatever step failed; and the caller's audio file is
\* never deleted.
C28_NoTemporaryFileLeft ==
    /\ AudioFiles \subseteq files
    /\ \A e \in Extractions :
          extraction[e].pc \in {"returned", "raised"} => TempPath(e) \notin files

====
